---- MODULE Spec2Model ----
(***************************************************************************)
(* Spanishify content script (src/content.js, second variant, lines        *)
(* 460-1413): the translation cache and client (translateText), the batch  *)
(* orchestrator (translatePage) and the commands that start runs.          *)
(*                                                                         *)
(* JavaScript strings are sequences of one-character strings; "\n" is the  *)
(* line feed.  A JavaScript value that may be a number, a string or        *)
(* undefined is a record [kind, num, str].                                 *)
(***************************************************************************)
EXTENDS Integers, Sequences, FiniteSets, TLC

\* ------------------------------------------------------------------ bounds
\* runs (translate commands) per page load
MaxRuns == 2
\* paragraphs of the longest article, translated by one run
MaxParas == 6
\* paragraphs of the longest page on which runs overlap
MaxShort == 3
\* direct translateText calls made by the test driver
MaxCalls == 3
\* selectors of mainSelectors that find an element on a page
MaxMatches == 2
\* parameters in the query of a link
MaxParams == 2

\* ------------------------------------------------------- JavaScript strings
\* white space removed by String.prototype.trim (the subset the pages use)
WhiteSpace == {" ", "\n"}

RECURSIVE TrimStart(_)
TrimStart(s) ==
  IF s = <<>> THEN s
  ELSE IF Head(s) \in WhiteSpace THEN TrimStart(Tail(s)) ELSE s

RECURSIVE TrimEnd(_)
TrimEnd(s) ==
  IF s = <<>> THEN s
  ELSE IF s[Len(s)] \in WhiteSpace THEN TrimEnd(SubSeq(s, 1, Len(s) - 1)) ELSE s

\* String.prototype.trim
Trim(s) == TrimEnd(TrimStart(s))

\* String.prototype.startsWith
StartsWith(s, p) == Len(s) >= Len(p) /\ SubSeq(s, 1, Len(p)) = p

\* s.includes(sub): sub occurs in s
Contains(s, sub) ==
  \E i \in 1..(Len(s) + 1 - Len(sub)) : SubSeq(s, i, i + Len(sub) - 1) = sub

\* the separator token '\n---\n'
Separator == <<"\n", "-", "-", "-", "\n">>

RECURSIVE SplitFrom(_, _, _)
SplitFrom(rest, cur, sep) ==
  IF rest = <<>> THEN <<cur>>
  ELSE IF StartsWith(rest, sep)
       THEN <<cur>> \o SplitFrom(SubSeq(rest, Len(sep) + 1, Len(rest)), <<>>, sep)
       ELSE SplitFrom(Tail(rest), Append(cur, Head(rest)), sep)

\* String.prototype.split with a non-empty separator: left to right,
\* non-overlapping; the empty string splits into one empty part
Split(s, sep) == SplitFrom(s, <<>>, sep)

RECURSIVE Join(_, _)
\* Array.prototype.join
Join(parts, sep) ==
  IF parts = <<>> THEN <<>>
  ELSE IF Len(parts) = 1 THEN parts[1]
  ELSE parts[1] \o sep \o Join(Tail(parts), sep)

Digits == <<"0", "1", "2", "3", "4", "5", "6", "7", "8", "9">>

RECURSIVE NatToString(_)
NatToString(n) ==
  IF n < 10 THEN <<Digits[n + 1]>>
  ELSE NatToString(n \div 10) \o <<Digits[(n % 10) + 1]>>

\* Number to string, as a template literal converts it
NumberToString(n) == IF n < 0 THEN <<"-">> \o NatToString(-n) ELSE NatToString(n)

DigitValue(c) == CHOOSE k \in 0..9 : Digits[k + 1] = c

IsDigit(c) == \E k \in 1..10 : Digits[k] = c

RECURSIVE ParseDigits(_, _)
\* the value of the longest prefix of digits of s, after the digits read so far
ParseDigits(s, acc) ==
  IF s = <<>> \/ ~IsDigit(Head(s)) THEN acc
  ELSE ParseDigits(Tail(s), acc * 10 + DigitValue(Head(s)))

\* parseInt of a string: leading white space, an optional sign, then digits;
\* NaN when no digit follows
ParseIntString(s) ==
  LET t == TrimStart(s)
      neg == t # <<>> /\ Head(t) = "-"
      u == IF t # <<>> /\ Head(t) \in {"-", "+"} THEN Tail(t) ELSE t
  IN IF u = <<>> \/ ~IsDigit(Head(u)) THEN [nan |-> TRUE, v |-> 0]
     ELSE [nan |-> FALSE, v |-> IF neg THEN -ParseDigits(u, 0) ELSE ParseDigits(u, 0)]

\* ------------------------------------------------------- JavaScript values
Num(n) == [kind |-> "number", num |-> n, str |-> <<>>]
Str(s) == [kind |-> "string", num |-> 0, str |-> s]
Undefined == [kind |-> "undefined", num |-> 0, str |-> <<>>]

\* String(value), as `${value}` converts it
JSString(v) ==
  CASE v.kind = "number" -> NumberToString(v.num)
    [] v.kind = "string" -> v.str
    [] OTHER -> <<"u", "n", "d", "e", "f", "i", "n", "e", "d">>

\* parseInt(value): the value is converted to a string first
ParseInt(v) == ParseIntString(JSString(v))

\* parseInt(value) || 5: NaN and 0 are falsy
ParseIntOr5(v) ==
  LET r == ParseInt(v) IN IF r.nan \/ r.v = 0 THEN 5 ELSE r.v

\* ------------------------------------------------------------------- state
VARIABLES
  apiKey,            \* chrome.storage.sync holds a truthy apiKey
  translationCache,  \* the Map translationCache: cache key -> translated text
  currentDifficulty, \* the global currentDifficulty
  docs,              \* the documents built so far; the last one is live
  runs,              \* the translatePage invocations, in the order they started
  calls,             \* translateText invocations suspended on an await, per caller
  fetchCount,        \* number of fetch requests issued
  okResponses,       \* history: the successful remote responses
  ttLog,             \* history: the direct translateText calls that returned
  body,              \* the body a direct extractMainContent call clones
  cleanContent,      \* what that call returned
  promptLog,         \* history: the direct getPromptForDifficulty calls
  speech,            \* window.speechSynthesis, with the history of its use
  sent,              \* history: the difficulties of the popup's messages
  slider             \* the difficulty slider of the live document

vars == <<apiKey, translationCache, currentDifficulty, docs, runs, calls,
          fetchCount, okResponses, ttLog, body, cleanContent, promptLog, speech,
          sent, slider>>

\* the state of translation, and the rest
translation == <<apiKey, translationCache, currentDifficulty, docs, runs, calls,
                 fetchCount, okResponses, ttLog>>
others == <<body, cleanContent, promptLog, speech, sent, slider>>

\* the caller of translateText in the test suite; callers 1..MaxRuns are runs
TestCaller == 0

\* ------------------------------------------------- remote translation capability
\* a translation of one text, and another one the sampling may produce instead
Translate(t) == <<"S">> \o t
TranslateAlt(t) == <<"Z">> \o t

MapTranslate(parts) == [i \in 1..Len(parts) |-> Translate(parts[i])]

Max(a, b) == IF a >= b THEN a ELSE b
Min(a, b) == IF a <= b THEN a ELSE b

\* the completions the remote service may return for a request text: for one
\* text, a translation, another translation, or one padded with white space;
\* for a composite text of m parts, all m parts, a truncated answer, an answer
\* with an empty part, or an answer with a part too many
Completions(text) ==
  LET parts == Split(text, Separator)
      m == Len(parts)
      tr == MapTranslate(parts)
  IN IF m = 1
     THEN {tr[1], TranslateAlt(parts[1]), <<" ">> \o tr[1] \o <<"\n">>}
     ELSE {Join(tr, Separator),
           Join(SubSeq(tr, 1, Max(1, m - 2)), Separator),
           Join([tr EXCEPT ![2] = <<>>], Separator),
           Join(Append(tr, <<"S">>), Separator)}

\* how a remote call can fail: fetch rejects, the status is not ok,
\* response.json() rejects, or the body has no choices[0].message.content
FailureKinds == {"transport", "http", "badjson", "nochoices"}

RemoteOutcomes(text) ==
  {[kind |-> k, content |-> <<>>] : k \in FailureKinds}
    \cup {[kind |-> "ok", content |-> c] : c \in Completions(text)}

\* ------------------------------------------------------------ translateText
\* a mutant of CacheKey: the difficulty is left out of the key
CacheKeyTextOnly(text, difficulty) == text

\* a mutant of CacheKey: the difficulty and the text are not kept apart
CacheKeyJoined(text, difficulty) == JSString(difficulty) \o text

\* const cacheKey = `${difficulty}:${text}`
CacheKey(text, difficulty) == JSString(difficulty) \o <<":">> \o text

\* a mutant of CacheHas: the cache is never consulted
CacheHasNever(key) == FALSE

\* translationCache.has(cacheKey)
CacheHas(key) == key \in DOMAIN translationCache

\* translationCache.set(cacheKey, translatedText)
CacheSet(cache, key, value) ==
  [k \in DOMAIN cache \cup {key} |-> IF k = key THEN value ELSE cache[k]]

\* a mutant of CacheAfter: the value is cached before response.ok is checked,
\* so a failure caches the text it falls back to
CacheAfterAlways(cache, key, ok, value) == CacheSet(cache, key, value)

\* the cache after the request has settled: it is set only past the throws
\* for a failed request
CacheAfter(cache, key, ok, value) == IF ok THEN CacheSet(cache, key, value) ELSE cache

\* a mutant of CatchReturn: the catch block returns the trimmed text
CatchReturnTrimmed(text) == [threw |-> FALSE, value |-> Trim(text)]

\* the catch block: report, then return the original text
CatchReturn(text) == [threw |-> FALSE, value |-> text]

\* the value translateText returns normally
Returned(value) == [threw |-> FALSE, value |-> value]
\* ---------------------------------------------------------------- documents
\* A document is [reader, article, paras, other, indicators]: reader tells the
\* reader layout from the page as loaded; article tells whether the p elements
\* (with the elements around them, and nothing else) lie in an article element
\* whose text is longer than 100 characters; paras are its p elements in
\* document order, each with the text of its speech button (reader layout
\* only), the contents of its text nodes and the element it lies within
\* ("none": no element the extraction could remove), the constant pText of
\* its turn of formatContent (reader layout only) and whether its button has
\* a click listener; other tells whether the
\* body holds anything besides paragraphs; indicators are the runs whose
\* loading indicator hangs in the body.  A text node is addressed by <<p, k>>:
\* k = 0 is the button's text node of paragraph p, k >= 1 the k-th text node
\* of the p element.

\* the button label, two UTF-16 code units
SpeakerIcon == <<"D83D", "DD0A">>

Para(texts) ==
  [button |-> <<>>, texts |-> texts, within |-> "none", pText |-> <<>>,
   listening |-> FALSE]

\* a p element inside <div class="advertisement">, inside <form>, inside
\* <div style="display: none">
ParaWithin(texts, element) == [Para(texts) EXCEPT !.within = element]

\* the text of paragraph j of a page
Word(j) == <<"w", Digits[(j % 10) + 1]>>

\* a page as loaded with k paragraphs of one text node each; without
\* paragraphs it has no content at all
Article(k) ==
  [reader |-> FALSE, article |-> FALSE,
   paras |-> [j \in 1..k |-> Para(<<Word(j)>>)],
   other |-> k > 0, indicators |-> {}]

\* a page whose content has no p element, and a page whose paragraphs hold
\* several text nodes, white space and a one-character node
OddPages ==
  {[reader |-> FALSE, article |-> FALSE, paras |-> <<>>, other |-> TRUE,
    indicators |-> {}],
   [reader |-> FALSE, article |-> FALSE,
    paras |-> <<Para(<<<<" ", "h", "i", " ">>, <<"!">>, <<"y", "o">>>>),
                Para(<<<<" ">>>>),
                Para(<<Word(1)>>)>>,
    other |-> TRUE, indicators |-> {}]}

Pages(maxParas) == {Article(k) : k \in 0..maxParas} \cup OddPages

\* the text of an advertisement
AdText == <<"a", "d">>

\* the page of the end-to-end test: an article of two paragraphs and one
\* advertisement element
TwoParagraphPage ==
  [reader |-> FALSE, article |-> TRUE,
   paras |-> <<Para(<<Word(1)>>), ParaWithin(<<AdText>>, "advertisement"),
               Para(<<Word(2)>>)>>,
   other |-> TRUE, indicators |-> {}]

\* the elements marked as an ad by their class
AdElements == {"advertisement", "wsj-ad", "ad", "ad-banner"}

\* the pages of the extraction tests, as far as ads go: an article of one
\* paragraph and one ad element, with a paragraph of text or an empty one
AdPages ==
  {[reader |-> FALSE, article |-> TRUE,
    paras |-> <<Para(<<Word(1)>>), ParaWithin(texts, element)>>,
    other |-> TRUE, indicators |-> {}] :
     element \in AdElements, texts \in {<<AdText>>, <<>>}}

\* an article with a paragraph in each kind of element, an article whose
\* paragraphs are all hidden, and a short page whose only paragraph is hidden
Fixtures ==
  {TwoParagraphPage,
   [reader |-> FALSE, article |-> TRUE,
    paras |-> <<Para(<<Word(1)>>), ParaWithin(<<Word(2)>>, "form"),
                ParaWithin(<<Word(3)>>, "hidden"),
                ParaWithin(<<AdText>>, "advertisement")>>,
    other |-> TRUE, indicators |-> {}],
   [reader |-> FALSE, article |-> TRUE,
    paras |-> <<ParaWithin(<<Word(1)>>, "hidden"), ParaWithin(<<Word(2)>>, "hidden")>>,
    other |-> TRUE, indicators |-> {}],
   [reader |-> FALSE, article |-> FALSE,
    paras |-> <<ParaWithin(<<Word(1)>>, "hidden")>>,
    other |-> FALSE, indicators |-> {}]}

\* pages whose text collides with the separator: a paragraph whose text
\* holds the separator, and one whose text ends like the separator begins
SeparatorPages ==
  {[reader |-> FALSE, article |-> FALSE,
    paras |-> <<Para(<<text>>), Para(<<Word(1)>>)>>,
    other |-> TRUE, indicators |-> {}] :
     text \in {<<"a">> \o Separator \o <<"b">>, <<"a", "\n", "-", "-", "-">>}}
Live == Len(docs)

\* a mutant of Body: the document as it was loaded
BodyAsLoaded(ds) == ds[1]

\* document.body of extractMainContent: the body of the live document
Body(ds) == ds[Len(ds)]

NodeText(doc, ref) ==
  IF ref[2] = 0 THEN doc.paras[ref[1]].button ELSE doc.paras[ref[1]].texts[ref[2]]

RECURSIVE Concat(_)
Concat(seqs) == IF seqs = <<>> THEN <<>> ELSE Head(seqs) \o Concat(Tail(seqs))

\* p.textContent
ParaText(para) == Concat(para.texts)

\* removeEmpty, as far as paragraphs go: a p element whose trimmed text is
\* empty is removed (images are not modelled)
RemoveEmpty(paras) ==
  LET keep(para) == Trim(ParaText(para)) # <<>> IN SelectSeq(paras, keep)

\* the elements a p element of the pages lies within: none, a form, a hidden
\* element, or a div of one of four classes
Elements == {"none", "form", "hidden", "advertisement", "wsj-ad", "ad", "ad-banner"}

\* the class attribute of such an element
ClassName(element) ==
  CASE element = "advertisement" -> <<"a", "d", "v", "e", "r", "t", "i", "s", "e", "m", "e", "n", "t">>
    [] element = "wsj-ad" -> <<"w", "s", "j", "-", "a", "d">>
    [] element = "ad" -> <<"a", "d">>
    [] element = "ad-banner" -> <<"a", "d", "-", "b", "a", "n", "n", "e", "r">>
    [] OTHER -> <<>>

\* the substrings of the selectors [class*="ad-"] and [class*="advertisement"]
ClassSubstrings == {<<"a", "d", "-">>, <<"a", "d", "v", "e", "r", "t", "i", "s", "e", "m", "e", "n", "t">>}

\* the elements the unwantedSelectors match, among those a p element lies
\* within: the class of an advertisement and of an ad-banner holds one of
\* the substrings; form and a hidden element match no selector
Unwanted ==
  {element \in Elements :
     \E sub \in ClassSubstrings : Contains(ClassName(element), sub)}

\* unwantedSelectors.forEach: the p elements left after the removal
RemoveUnwanted(paras) ==
  LET keep(para) == para.within \notin Unwanted IN SelectSeq(paras, keep)

\* removeHidden: elements with an inline "display: none" or "visibility:
\* hidden" style or the hidden attribute are removed
RemoveHidden(paras) ==
  LET keep(para) == para.within # "hidden" IN SelectSeq(paras, keep)

\* extractMainContent, as far as translatePage depends on it: the p elements
\* of the cleaned content, and whether its markup is empty.  The content is
\* the article when its text, the unwanted elements removed, is long enough,
\* and the clone of the body otherwise, which holds the loading indicators
\* and, in the reader layout, the difficulty controls.
ExtractMainContent(doc) ==
  LET cleaned == RemoveUnwanted(doc.paras)
      inArticle == doc.article /\ cleaned # <<>>
      paras == RemoveHidden(RemoveEmpty(cleaned))
  IN [paras |-> paras,
      empty |-> paras = <<>> /\ (inArticle \/ (~doc.other /\ doc.indicators = {}))]

\* speechButton.addEventListener('click', ...)
Listening == TRUE

\* element.innerHTML, parsed again: the elements of the markup have no
\* listeners, whatever the serialised elements had
Markup(listening) == FALSE

\* formatContent with the swap: one container per p element, a speech button
\* before the clone of the p element; the new body holds the difficulty
\* controls and no loading indicator.  The buttons come out of the markup
\* formatContent returns.
ReaderDocument(paras) ==
  [reader |-> TRUE,
   article |-> FALSE,
   paras |-> [j \in 1..Len(paras) |->
                [button |-> SpeakerIcon, texts |-> paras[j].texts,
                 within |-> "none", pText |-> Trim(ParaText(paras[j])),
                 listening |-> Markup(Listening)]],
   other |-> TRUE,
   indicators |-> {}]

\* acceptNode of the TreeWalker
AcceptNode(text) == Len(Trim(text)) > 1

RECURSIVE RefsFrom(_, _, _)
\* the text nodes from node <<p, k>> on, in document order
RefsFrom(doc, p, k) ==
  IF p > Len(doc.paras) THEN <<>>
  ELSE IF k > Len(doc.paras[p].texts) THEN RefsFrom(doc, p + 1, 0)
  ELSE <<<<p, k>>>> \o RefsFrom(doc, p, k + 1)

\* a mutant of TextNodes: the walk goes backwards, from the last node
TextNodesBackwards(doc) ==
  LET accepted(ref) == AcceptNode(NodeText(doc, ref))
      nodes == SelectSeq(RefsFrom(doc, 1, 0), accepted)
  IN [x \in 1..Len(nodes) |-> nodes[Len(nodes) + 1 - x]]

\* the walk over #spanishify-reader: the accepted text nodes in document order
TextNodes(doc) ==
  LET accepted(ref) == AcceptNode(NodeText(doc, ref))
  IN SelectSeq(RefsFrom(doc, 1, 0), accepted)

\* const batchSize = 5
batchSize == 5

\* a mutant of Slice: the slice ends one element late
SliceLate(textNodes, i) ==
  SubSeq(textNodes, i + 1, Min(i + batchSize + 1, Len(textNodes)))

\* textNodes.slice(i, i + batchSize), i counted from 0
Slice(textNodes, i) == SubSeq(textNodes, i + 1, Min(i + batchSize, Len(textNodes)))

\* batch.map(node => node.textContent.trim()).join('\n---\n')
BatchText(doc, batch) ==
  Join([x \in 1..Len(batch) |-> Trim(NodeText(doc, batch[x]))], Separator)

\* a mutant of Updated: a part replaces the text unless it is undefined
UpdatedDefined(old, ref, batch, parts) ==
  LET hits == {x \in 1..Len(batch) : batch[x] = ref /\ x <= Len(parts)}
  IN IF hits = {} THEN old ELSE parts[CHOOSE x \in hits : TRUE]

\* the text a node has after batch.forEach: part index of the batch replaces
\* the text of node index when translatedParts[index] is truthy
Updated(old, ref, batch, parts) ==
  LET hits == {x \in 1..Len(batch) :
                 batch[x] = ref /\ x <= Len(parts) /\ parts[x] # <<>>}
  IN IF hits = {} THEN old ELSE parts[CHOOSE x \in hits : TRUE]

ForEachUpdate(doc, batch, parts) ==
  [doc EXCEPT !.paras =
     [p \in 1..Len(doc.paras) |->
        [doc.paras[p] EXCEPT
           !.button = Updated(@, <<p, 0>>, batch, parts),
           !.texts = [k \in 1..Len(@) |-> Updated(@[k], <<p, k>>, batch, parts)]]]]

\* a mutant of Swapped: the document is left as it is
SwappedNot(ds, reader) == ds

\* document.documentElement.innerHTML = cleanDoc.documentElement.innerHTML:
\* the reader layout becomes the live document
Swapped(ds, reader) == Append(ds, reader)

\* a mutant of RemoveIndicator: the indicator is left where it is
RemoveIndicatorNot(ds, r) == ds

\* loadingIndicator.remove()
RemoveIndicator(ds, r) ==
  [g \in 1..Len(ds) |-> [ds[g] EXCEPT !.indicators = @ \ {r}]]
\* --------------------------------------------------------------------- runs
\* A run is [pc, gen, textNodes, i, outcome, ...]: pc tells where translatePage
\* stands ("storage": suspended on the credential read; "loop": in the batch
\* loop; "done": returned); gen is the document it swapped in (0: none);
\* textNodes and i are the locals of that name.  The rest is history: orig,
\* the texts of the text nodes when they were collected; log, one entry per
\* translateText call of the loop (its batch, the texts of the batch before
\* the call, and how the call ended); credential, what the read of the
\* credential found ("unread" before it); extracted and content, whether
\* extractMainContent was called and what it returned; writes, the
\* assignments to a text node's textContent, each with the number of the
\* batch whose answer was written; notices, the messages shown to the user
\* by the run and by its translateText calls.

NewRun ==
  [pc |-> "storage", gen |-> 0, textNodes |-> <<>>, i |-> 0, outcome |-> "",
   orig |-> <<>>, log |-> <<>>, credential |-> "unread",
   extracted |-> FALSE, content |-> [paras |-> <<>>, empty |-> FALSE],
   writes |-> <<>>, notices |-> <<>>]

\* the messages of showNotification: the missing credential of translatePage,
\* the errors thrown in translatePage, and the failure of translateText
ConfigureNotice == "Please configure your OpenAI API key"
NoContentNotice == "Translation failed: No content found to translate"
NoTextNotice == "Translation failed: No text found to translate"
FailedNotice == "Translation failed"

\* showNotification(message, 'error'), on behalf of a run
Notify(run, message) == [run EXCEPT !.notices = Append(@, message)]

\* a mutant of CatchNotices: the catch block of translateText shows nothing
CatchNoticesNone(failure) == <<>>

\* the notifications of the catch block of translateText, whatever the
\* error caught
CatchNotices(failure) == <<FailedNotice>>

\* a mutant of NoTextFound: the number of text nodes is not tested
NoTextFoundNever(textNodes) == FALSE

\* if (textNodes.length === 0)
NoTextFound(textNodes) == Len(textNodes) = 0

\* a mutant of PageKeyMissing: translatePage does not test the credential
PageKeyMissingNever(stored) == FALSE

\* if (!apiKey) of translatePage
PageKeyMissing(stored) == ~stored

\* a mutant of TextKeyMissing: translateText does not test the credential
TextKeyMissingNever(stored) == FALSE

\* if (!apiKey) of translateText
TextKeyMissing(stored) == ~stored

\* a mutant of Awaited: the loop does not wait for the call it issued
AwaitedNever(r) == TRUE

\* the await of translateText in the loop: the loop body goes on only when
\* the call it issued has returned
Awaited(r) == calls[r] = <<>>

\* run r is executing (not suspended): no other task starts until it suspends
Executing(r) == runs[r].pc = "loop" /\ calls[r] = <<>>

Idle == \A r \in 1..Len(runs) : ~Executing(r)

InProgress(r) == runs[r].pc # "done"

\* a translateText call suspended on an await: st is "storage" (the read of
\* the credential) or "fetch" (the request and the parsing of its response);
\* batch holds the caller's batch, hadKey what the read of the credential found
Call(text, difficulty, batch) ==
  [text |-> text, difficulty |-> difficulty, st |-> "storage", batch |-> batch,
   hadKey |-> FALSE]

Finished(run, outcome) == [run EXCEPT !.pc = "done", !.outcome = outcome]

\* a mutant of Parts: the first part of the answer is dropped
PartsShifted(value) == Tail(Split(value, Separator))

\* translatedText.split('\n---\n')
Parts(value) == Split(value, Separator)

RECURSIVE WritesFrom(_, _, _, _)
\* the assignments of batch.forEach from index x on, for batch number n
WritesFrom(n, batch, parts, x) ==
  IF x > Len(batch) THEN <<>>
  ELSE (IF x <= Len(parts) /\ parts[x] # <<>>
        THEN <<[batch |-> n, ref |-> batch[x]]>> ELSE <<>>)
       \o WritesFrom(n, batch, parts, x + 1)

\* a mutant of NextIndex: the loop steps one short of the batch size
NextIndexShort(i) == i + batchSize - 1

\* i += batchSize
NextIndex(i) == i + batchSize

\* a mutant of WrittenDoc: the nodes of the batch are looked up in the live
\* document
WrittenLive(ds, run) == Len(ds)

\* the document that holds the nodes of a run's batches: the one the run
\* walked, live or not
WrittenDoc(ds, run) == run.gen

\* translatePage after translateText has returned or thrown: the parts are
\* written to the batch and the loop goes to the next batch; an error ends
\* the run.  A failure inside translateText has shown its notice.
Resumed(rs, ds, r, ret, meta) ==
  LET run == [rs[r] EXCEPT !.notices = @ \o meta.notices]
      n == Len(run.log)
      batch == Slice(run.textNodes, run.i)
      parts == IF ret.threw THEN <<>> ELSE Parts(ret.value)
      entry == [run.log[n] EXCEPT !.done = TRUE, !.hit = meta.hit,
                                  !.fetched = meta.fetched, !.ok = meta.ok,
                                  !.threw = ret.threw, !.value = ret.value]
  IN IF ret.threw
     THEN [runs |-> [rs EXCEPT ![r] = Finished([run EXCEPT !.log[n] = entry], "aborted")],
           docs |-> RemoveIndicator(ds, r)]
     ELSE [runs |-> [rs EXCEPT ![r] =
                       [run EXCEPT !.log[n] = entry,
                                   !.i = NextIndex(run.i),
                                   !.writes = @ \o WritesFrom(n, batch, parts, 1)]],
           docs |-> [ds EXCEPT ![WrittenDoc(ds, run)] = ForEachUpdate(@, batch, parts)]]

\* the caller of translateText goes on with the value returned; the entry of
\* a direct call tells whether a credential was stored when the call read it
\* or, answered from the cache, would have read it
Return(caller, call, ret, meta) ==
  IF caller = TestCaller
  THEN /\ ttLog' = Append(ttLog, [text |-> call.text, difficulty |-> call.difficulty,
                                  hit |-> meta.hit, hadKey |-> meta.hadKey,
                                  fetched |-> meta.fetched, ok |-> meta.ok,
                                  fetches |-> fetchCount,
                                  keyNow |-> IF meta.hit THEN apiKey ELSE meta.hadKey,
                                  failure |-> meta.failure,
                                  notices |-> meta.notices,
                                  ret |-> ret])
       /\ UNCHANGED <<runs, docs>>
  ELSE /\ LET st == Resumed(runs, docs, caller, ret, meta)
          IN runs' = st.runs /\ docs' = st.docs
       /\ UNCHANGED ttLog

HitMeta ==
  [hit |-> TRUE, hadKey |-> FALSE, fetched |-> FALSE, ok |-> TRUE, failure |-> "",
   notices |-> <<>>]

\* ------------------------------------------- extractMainContent: the region
\* A page, for a direct call of extractMainContent, is [matches, links]:
\* matches tells for each of the mainSelectors what temp.querySelector finds,
\* once the unwanted elements are removed; links are the href properties of
\* the a elements of the cleaned content, in document order.

\* const mainSelectors
mainSelectors ==
  <<"article", "main", "[role=\"main\"]", "[role=\"article\"]", ".post-content",
    ".entry-content", ".article-content", ".content", "#content", ".main-content">>

\* the length the loop and the test after it compare with
MinLength == 100

\* temp.querySelector(selector): null, or the first element matching, told
\* by the length of its trimmed text
NoMatch == [found |-> FALSE, length |-> 0]
Match(n) == [found |-> TRUE, length |-> n]

\* the container temp, as the value of mainContent
Temp == 0

RECURSIVE SelectorLoop(_, _, _)
\* the for loop over mainSelectors from selector s on: mainContent is the
\* selector whose match the variable of that name holds (Temp stands for null
\* here), assigned anew in every turn; the loop breaks at a match with more
\* than MinLength characters
SelectorLoop(matches, s, mainContent) ==
  IF s > Len(matches) THEN mainContent
  ELSE LET found == IF matches[s].found THEN s ELSE Temp
       IN IF matches[s].found /\ matches[s].length > MinLength THEN found
          ELSE SelectorLoop(matches, s + 1, found)

\* the region extractMainContent cleans: the selector whose match it is, or
\* Temp when the loop left null or a match with less than MinLength characters
MainContent(matches) ==
  LET mainContent == SelectorLoop(matches, 1, Temp)
  IN IF mainContent = Temp \/ matches[mainContent].length < MinLength
     THEN Temp ELSE mainContent

\* text lengths around MinLength
Lengths == {0, MinLength - 1, MinLength, MinLength + 1}

\* the pages on which at most MaxMatches selectors find an element
RegionMatches ==
  UNION {{[s \in 1..Len(mainSelectors) |-> IF s \in S THEN Match(l[s]) ELSE NoMatch] :
            l \in [S -> Lengths]} :
         S \in {T \in SUBSET (1..Len(mainSelectors)) : Cardinality(T) <= MaxMatches}}
\* -------------------------------------------- extractMainContent: the links
\* the first position from i on at which s holds a character of cs, and
\* Len(s) + 1 when there is none
RECURSIVE IndexOf(_, _, _)
IndexOf(s, cs, i) ==
  IF i > Len(s) THEN Len(s) + 1
  ELSE IF s[i] \in cs THEN i ELSE IndexOf(s, cs, i + 1)

\* s.substring(from - 1, to - 1), positions counted from 1
Substring(s, from, to) == IF from >= to THEN <<>> ELSE SubSeq(s, from, to - 1)

Scheme == <<"h", "t", "t", "p", "s", ":", "/", "/">>

\* new URL(href), for the hrefs the pages use: the parts of an https URL, a
\* missing path read as "/"; anything else throws
ParseURL(href) ==
  LET h0 == Len(Scheme) + 1
      h1 == IndexOf(href, {"/", "?", "#"}, h0)
      p1 == IndexOf(href, {"?", "#"}, h1)
      q1 == IF p1 <= Len(href) /\ href[p1] = "?" THEN IndexOf(href, {"#"}, p1) ELSE p1
  IN IF ~StartsWith(href, Scheme) \/ h1 = h0
     THEN [valid |-> FALSE, host |-> <<>>, pathname |-> <<>>, query |-> <<>>,
           hash |-> <<>>]
     ELSE [valid |-> TRUE,
           host |-> Substring(href, h0, h1),
           pathname |-> IF p1 = h1 THEN <<"/">> ELSE Substring(href, h1, p1),
           query |-> Substring(href, p1 + 1, q1),
           hash |-> Substring(href, q1 + 1, Len(href) + 1)]

\* url.searchParams: the query split at "&", every piece that is not empty
\* split at its first "=" (the pages use no escapes)
SearchParams(query) ==
  LET filled(piece) == piece # <<>>
      pieces == SelectSeq(Split(query, <<"&">>), filled)
      param(piece) == LET e == IndexOf(piece, {"="}, 1)
                      IN [name |-> Substring(piece, 1, e),
                          value |-> Substring(piece, e + 1, Len(piece) + 1)]
  IN [i \in 1..Len(pieces) |-> param(pieces[i])]

\* a mutant of paramsToRemove: ref is not in the list
paramsToRemoveButRef ==
  {<<"u", "t", "m", "_", "s", "o", "u", "r", "c", "e">>, <<"u", "t", "m", "_", "m", "e", "d", "i", "u", "m">>, <<"u", "t", "m", "_", "c", "a", "m", "p", "a", "i", "g", "n">>, <<"s", "o", "u", "r", "c", "e">>}

\* const paramsToRemove
paramsToRemove ==
  {<<"u", "t", "m", "_", "s", "o", "u", "r", "c", "e">>, <<"u", "t", "m", "_", "m", "e", "d", "i", "u", "m">>, <<"u", "t", "m", "_", "c", "a", "m", "p", "a", "i", "g", "n">>, <<"r", "e", "f">>, <<"s", "o", "u", "r", "c", "e">>}

\* paramsToRemove.forEach(param => url.searchParams.delete(param))
DeleteParams(params) ==
  LET kept(param) == param.name \notin paramsToRemove IN SelectSeq(params, kept)

\* the query after an update of the searchParams: name=value joined by "&"
Stringify(params) ==
  Join([i \in 1..Len(params) |-> params[i].name \o <<"=">> \o params[i].value],
       <<"&">>)

\* url.toString()
URLString(url) ==
  Scheme \o url.host \o url.pathname
  \o (IF url.query = <<>> THEN <<>> ELSE <<"?">> \o url.query)
  \o (IF url.hash = <<>> THEN <<>> ELSE <<"#">> \o url.hash)

\* the body of links.forEach: the href a link has afterwards
CleanLink(href) ==
  LET url == ParseURL(href)
  IN IF href = <<>> \/ ~url.valid THEN href
     ELSE URLString([url EXCEPT !.query = Stringify(DeleteParams(SearchParams(@)))])

\* the names of the parameters of the pages' links: those of paramsToRemove
\* and two others, one of which begins like one of them
ParamNames == paramsToRemove \cup {<<"i", "d">>, <<"r", "e", "f", "s">>}

\* a parameter as written in a query, with its value or bare
Pieces == {name \o <<"=", "1">> : name \in ParamNames} \cup {<<"r", "e", "f">>, <<"i", "d">>}

\* the queries of at most n parameters
RECURSIVE Queries(_)
Queries(n) ==
  IF n = 0 THEN {<<>>}
  ELSE Queries(n - 1)
       \cup {IF q = <<>> THEN piece ELSE q \o <<"&">> \o piece :
               q \in Queries(n - 1), piece \in Pieces}

\* the link of the test suite
TrackedLink == <<"h", "t", "t", "p", "s", ":", "/", "/", "e", "x", "a", "m", "p", "l", "e", ".", "c", "o", "m", "?", "u", "t", "m", "_", "s", "o", "u", "r", "c", "e", "=", "t", "e", "s", "t", "&", "r", "e", "f", "=", "1", "2", "3">>

\* the hrefs of the pages' links: URLs on one host, the link of the test
\* suite, an href no URL can be made of, and an empty one
Hrefs ==
  {Scheme \o <<"e", ".", "x">> \o path \o (IF q = <<>> THEN <<>> ELSE <<"?">> \o q) \o hash :
     path \in {<<"/">>, <<"/", "p">>}, q \in Queries(MaxParams), hash \in {<<>>, <<"#", "h">>}}
  \cup {TrackedLink, Scheme, <<>>}

\* ----------------------------------------- extractMainContent: the elements
\* The elements of the content region are a sequence in document order, each
\* [tag, text, hidden, parent]: text is the text of its own text nodes,
\* hidden tells whether it has the hidden attribute (or an inline style that
\* hides it), parent is the position of its parent (0: the region itself).
\* gone is the set of elements remove() was called on; an element has left
\* the region when it or one of its ancestors is gone.

\* elements of a region
MaxElements == 2

Tags == {"div", "a", "img"}

\* the regions: a parent comes before its children, and an img has neither
\* text nor children
Regions ==
  LET Shapes == [tag : Tags, text : {<<>>, <<"t">>}, hidden : BOOLEAN,
                 parent : 0..(MaxElements - 1)]
      seqs == UNION {[1..n -> Shapes] : n \in 0..MaxElements}
  IN {tree \in seqs :
        \A i \in 1..Len(tree) :
          /\ tree[i].parent < i
          /\ tree[i].tag = "img" => tree[i].text = <<>>
          /\ tree[i].parent > 0 => tree[tree[i].parent].tag # "img"}

RECURSIVE Chain(_, _)
\* element i and its ancestors
Chain(tree, i) == IF i = 0 THEN {} ELSE {i} \cup Chain(tree, tree[i].parent)

\* the descendants element i has, given the elements gone
Below(tree, gone, i) ==
  {j \in 1..Len(tree) :
     /\ j # i
     /\ i \in Chain(tree, j)
     /\ (Chain(tree, j) \ Chain(tree, i)) \cap gone = {}}

\* el.textContent
TextContent(tree, gone, i) ==
  Concat([j \in 1..Len(tree) |->
            IF j = i \/ j \in Below(tree, gone, i) THEN tree[j].text ELSE <<>>])

\* el.querySelector(tag)
QuerySelector(tree, gone, i, tag) ==
  \E j \in Below(tree, gone, i) : tree[j].tag = tag

RECURSIVE RemoveEmptyFrom(_, _, _)
\* removeEmpty: the forEach over the elements as listed before the first
\* removal, from element i on
RemoveEmptyFrom(tree, gone, i) ==
  IF i > Len(tree) THEN gone
  ELSE RemoveEmptyFrom(tree,
         IF Trim(TextContent(tree, gone, i)) = <<>>
            /\ ~QuerySelector(tree, gone, i, "img")
         THEN gone \cup {i} ELSE gone,
         i + 1)

\* removeHidden: every element the selectors match is removed
RemoveHiddenFrom(tree, gone) == gone \cup {i \in 1..Len(tree) : tree[i].hidden}

\* the cleaning of the region: removeEmpty, then removeHidden
Cleaned(tree) == RemoveHiddenFrom(tree, RemoveEmptyFrom(tree, {}, 1))

\* ---------------------------------------- extractMainContent, called directly
NoPage ==
  [matches |-> [s \in 1..Len(mainSelectors) |-> NoMatch], links |-> <<>>,
   elements |-> <<>>]

NotExtracted == [done |-> FALSE, region |-> Temp, links |-> <<>>, gone |-> {}]

\* the pages of the direct calls: every page of RegionMatches without links,
\* a page of one link for every href, and a page for every region
ExtractPages ==
  {[NoPage EXCEPT !.matches = m] : m \in RegionMatches}
  \cup {[NoPage EXCEPT !.links = <<href>>] : href \in Hrefs}
  \cup {[NoPage EXCEPT !.elements = tree] : tree \in Regions}

\* a test calls extractMainContent(): the region it chose, the hrefs of the
\* links it returns and the elements removed from the region
ExtractCall ==
  /\ ~cleanContent.done
  /\ cleanContent' = [done |-> TRUE,
                      region |-> MainContent(body.matches),
                      links |-> [i \in 1..Len(body.links) |-> CleanLink(body.links[i])],
                      gone |-> Cleaned(body.elements)]
  /\ UNCHANGED <<body, promptLog, speech, sent, slider>>
  /\ UNCHANGED translation
\* ------------------------------------------------------------------- speech
\* The state of speech is [available, queue, tested, voices, calls, clicks]:
\* available tells whether window.speechSynthesis exists; queue holds its
\* utterances, the first one being spoken; tested tells whether
\* testSpeechSynthesis has run; voices is the state of the voices and of the
\* initVoices call of initialize.  The rest is history: calls, one entry per speakText call (its text,
\* the queue before it and the queue after it); clicks, one entry per click
\* on a speech button (the paragraph, its text at the click, the text it had
\* when formatContent ran, and the texts handed to speakText).

\* speakText calls and clicks on speech buttons per page load
MaxSpeaks == 3
MaxClicks == 1

\* polls of an empty voice list by one initVoices call
MaxPolls == 3

\* The voices are [list, event, handler, voicesLoaded, promise, fallback,
\* retry, polls]: list tells whether getVoices() returns voices ("loaded") or
\* an empty array ("empty"); event whether speechSynthesis has an
\* onvoiceschanged property; handler whether loadVoices is assigned to it;
\* voicesLoaded is the global of that name; promise is the state of the
\* promise initVoices returned to initialize ("none": not called); fallback
\* and retry tell whether the timer of 1000 ms and a timer of 200 ms are
\* pending; polls counts the calls of loadVoices that found the list empty.
NoVoices ==
  [list |-> "empty", event |-> TRUE, handler |-> FALSE, voicesLoaded |-> FALSE,
   promise |-> "none", fallback |-> FALSE, retry |-> FALSE, polls |-> 0]

\* loadVoices: voices found resolve the promise; an empty list sets a timer
\* of 200 ms for another call of loadVoices
LoadVoices(v) ==
  IF v.list = "loaded"
  THEN [v EXCEPT !.voicesLoaded = TRUE, !.promise = "resolved"]
  ELSE [v EXCEPT !.retry = TRUE, !.polls = @ + 1]

\* initVoices() of initialize, up to the return of the promise
InitVoices(v) ==
  IF v.event
  THEN [v EXCEPT !.promise = "pending", !.handler = TRUE, !.fallback = TRUE]
  ELSE LoadVoices([v EXCEPT !.promise = "pending"])

SpeechAtLoad ==
  [available |-> TRUE, queue |-> <<>>, tested |-> FALSE, voices |-> NoVoices,
   calls |-> <<>>, clicks |-> <<>>]

\* initialize(): initVoices is called when window.speechSynthesis exists
Initialize(sp) ==
  IF sp.available THEN [sp EXCEPT !.voices = InitVoices(@)] ELSE sp

\* new SpeechSynthesisUtterance(text) as speakText configures it
Utterance(text) == [text |-> text, lang |-> "es-ES", volume |-> 1]

\* the silent utterance of testSpeechSynthesis
TestUtterance == [text |-> <<>>, lang |-> "", volume |-> 0]

\* a mutant of Cancel: the queue is left as it is
CancelNot(queue) == queue

\* window.speechSynthesis.cancel(): every utterance leaves the queue
Cancel(queue) == <<>>

\* window.speechSynthesis.speak(utterance)
Speak(queue, utterance) == Append(queue, utterance)

\* the safety check of speakText (the argument is a string here)
InvalidText(text) == text = <<>> \/ Trim(text) = <<>>

\* the queue after speakText(text)
SpeakText(sp, text) ==
  IF InvalidText(text) \/ ~sp.available THEN sp.queue
  ELSE Speak(Cancel(sp.queue), Utterance(text))

\* the texts of the direct speakText calls
SpokenTexts == {<<"h", "o", "l", "a">>, <<"s", "i">>, <<" ">>}

\* a test calls speakText(text)
SpeakTextCall(text) ==
  /\ Len(speech.calls) < MaxSpeaks
  /\ speech' = [speech EXCEPT
                  !.queue = SpeakText(speech, text),
                  !.calls = Append(@, [text |-> text, before |-> speech.queue,
                                       after |-> SpeakText(speech, text)])]
  /\ UNCHANGED <<body, cleanContent, promptLog, sent, slider>>
  /\ UNCHANGED translation

\* the utterance being spoken ends
UtteranceEnd ==
  /\ speech.queue # <<>>
  /\ speech' = [speech EXCEPT !.queue = Tail(@)]
  /\ UNCHANGED <<body, cleanContent, promptLog, sent, slider>>
  /\ UNCHANGED translation

\* the voiceschanged event: the voices have arrived, and the handler runs
VoicesChanged ==
  /\ speech.available
  /\ speech.voices.list = "empty"
  /\ LET loaded == [speech.voices EXCEPT !.list = "loaded"]
     IN speech' = [speech EXCEPT !.voices = IF loaded.event /\ loaded.handler
                                            THEN LoadVoices(loaded) ELSE loaded]
  /\ UNCHANGED <<body, cleanContent, promptLog, sent, slider>>
  /\ UNCHANGED translation

\* the timer of 1000 ms of initVoices fires
FallbackTimer ==
  /\ speech.voices.fallback
  /\ LET v == [speech.voices EXCEPT !.fallback = FALSE]
     IN speech' = [speech EXCEPT !.voices = IF ~v.voicesLoaded THEN LoadVoices(v)
                                            ELSE v]
  /\ UNCHANGED <<body, cleanContent, promptLog, sent, slider>>
  /\ UNCHANGED translation

\* a timer of 200 ms of loadVoices fires
RetryTimer ==
  /\ speech.voices.retry
  /\ speech.voices.polls < MaxPolls
  /\ speech' = [speech EXCEPT !.voices = LoadVoices([@ EXCEPT !.retry = FALSE])]
  /\ UNCHANGED <<body, cleanContent, promptLog, sent, slider>>
  /\ UNCHANGED translation

\* the timer of initialize, set when the promise of initVoices has resolved,
\* fires: testSpeechSynthesis speaks its utterance
TestSpeechSynthesis ==
  /\ speech.available
  /\ speech.voices.promise = "resolved"
  /\ ~speech.tested
  /\ speech' = [speech EXCEPT !.tested = TRUE, !.queue = Speak(@, TestUtterance)]
  /\ UNCHANGED <<body, cleanContent, promptLog, sent, slider>>
  /\ UNCHANGED translation
\* ------------------------------------------------------------------- slider
\* The slider is [present, value, listening, timer, held, bursts]: present
\* tells whether the live document has the range input of the difficulty
\* controls; value is its value, a string; listening whether it has the
\* input and change listeners of createDifficultyControls; timer whether
\* the timeout of the change listener is pending; held the value of the
\* slider whose listener set it.  bursts is history: one entry per burst of
\* change events (the value and the number of its events, whether 500 ms
\* have passed since the last one, and then the current difficulty at that
\* moment, the run that was started, 0 for none, and the difficulty set).

\* bursts of change events, and change events in a burst
MaxBursts == 2
MaxEvents == 2

NoSlider ==
  [present |-> FALSE, value |-> <<>>, listening |-> FALSE, timer |-> FALSE,
   held |-> <<>>, bursts |-> <<>>]

\* the value a range input with min 1 and max 10 takes when a number is
\* assigned to it: the number brought into the range, as a string
RangeValue(n) == NumberToString(Max(1, Min(10, n)))

\* the slider of the document swapped in: it is parsed from the markup of
\* the controls, and slider.value = currentDifficulty follows
SwappedSlider(sl, difficulty) ==
  [sl EXCEPT !.present = TRUE, !.value = RangeValue(difficulty),
             !.listening = Markup(Listening)]

\* the values the user moves the slider to
SliderValues == {1, 5, 10}
\* ------------------------------------------------------------------ actions
\* translatePage(request.difficulty) up to its first await; an undefined
\* difficulty takes the default parameter
Received(payload) ==
  /\ Idle
  /\ Len(runs) < MaxRuns
  /\ LET difficulty == IF payload.kind = "undefined" THEN Num(currentDifficulty)
                       ELSE payload
         r == Len(runs) + 1
     IN /\ currentDifficulty' = ParseIntOr5(difficulty)
        /\ docs' = [docs EXCEPT ![Live].indicators = @ \cup {r}]
        /\ runs' = Append(runs, NewRun)
  /\ UNCHANGED <<apiKey, translationCache, calls, fetchCount, okResponses, ttLog>>
  /\ UNCHANGED <<body, cleanContent, promptLog, speech>>

\* chrome.runtime.onMessage with action 'translate', whoever sent the message
OnMessage(payload) == Received(payload) /\ UNCHANGED <<sent, slider>>

\* button.id of the popup's .difficulty-btn buttons
PopupLevels == {<<"b", "e", "g", "i", "n", "n", "e", "r">>, <<"i", "n", "t", "e", "r", "m", "e", "d", "i", "a", "t", "e">>, <<"a", "d", "v", "a", "n", "c", "e", "d">>}

\* a click on a difficulty button of the popup: the message is sent to the
\* tab, whose listener starts translatePage
PopupClick(level) ==
  /\ Received(Str(level))
  /\ sent' = Append(sent, level)
  /\ UNCHANGED slider

\* the last burst is still open: less than 500 ms have passed since its
\* last change event
BurstOpen == slider.bursts # <<>> /\ ~slider.bursts[Len(slider.bursts)].settled

\* the user moves the slider of the live document to v and lets go: the
\* change listener, if the slider has one, clears the timeout and sets it
SliderChange(v) ==
  /\ Idle
  /\ slider.present
  /\ IF BurstOpen THEN slider.bursts[Len(slider.bursts)].events < MaxEvents
     ELSE Len(slider.bursts) < MaxBursts
  /\ LET n == Len(slider.bursts)
         burst == [value |-> RangeValue(v), events |-> 1, settled |-> FALSE,
                   current |-> 0, started |-> 0, level |-> 0]
     IN slider' =
          [slider EXCEPT
             !.value = RangeValue(v),
             !.timer = IF slider.listening THEN TRUE ELSE @,
             !.held = IF slider.listening THEN RangeValue(v) ELSE @,
             !.bursts = IF BurstOpen
                        THEN [@ EXCEPT ![n].value = RangeValue(v),
                                       ![n].events = @ + 1]
                        ELSE Append(@, burst)]
  /\ UNCHANGED <<body, cleanContent, promptLog, speech, sent>>
  /\ UNCHANGED translation

\* 500 ms have passed since the last change event: the timeout, if set,
\* expires, and its callback starts translatePage when the value of its
\* slider is not the current difficulty
SliderQuiet ==
  /\ Idle
  /\ BurstOpen
  /\ LET n == Len(slider.bursts)
         newDifficulty == ParseInt(Str(slider.held)).v
         starts == slider.timer /\ newDifficulty # currentDifficulty
         settled == [slider.bursts[n] EXCEPT !.settled = TRUE,
                                             !.current = currentDifficulty]
     IN IF starts
        THEN /\ Received(Num(newDifficulty))
             /\ slider' = [slider EXCEPT
                             !.timer = FALSE,
                             !.bursts[n] = [settled EXCEPT
                                              !.started = Len(runs) + 1,
                                              !.level = ParseIntOr5(Num(newDifficulty))]]
             /\ UNCHANGED sent
        ELSE /\ slider' = [slider EXCEPT !.timer = FALSE, !.bursts[n] = settled]
             /\ UNCHANGED <<body, cleanContent, promptLog, speech, sent>>
             /\ UNCHANGED translation
\* translatePage from the credential read to the batch loop: extraction,
\* the swap of the document, the walk over its text nodes
RunStorage(r) ==
  /\ Idle
  /\ r \in 1..Len(runs)
  /\ runs[r].pc = "storage"
  /\ LET content == ExtractMainContent(Body(docs))
         reader == ReaderDocument(content.paras)
         nodes == TextNodes(reader)
         read == [runs[r] EXCEPT !.credential = IF apiKey THEN "stored" ELSE "missing"]
         run == [read EXCEPT !.extracted = TRUE, !.content = content]
     IN IF PageKeyMissing(apiKey)
        THEN /\ runs' = [runs EXCEPT ![r] =
                           Finished(Notify(read, ConfigureNotice), "nokey")]
             /\ docs' = RemoveIndicator(docs, r)
             /\ UNCHANGED slider
        ELSE IF content.empty
        THEN /\ runs' = [runs EXCEPT ![r] =
                           Finished(Notify(run, NoContentNotice), "nocontent")]
             /\ docs' = RemoveIndicator(docs, r)
             /\ UNCHANGED slider
        ELSE IF NoTextFound(nodes)
        THEN /\ runs' = [runs EXCEPT ![r] =
                           Finished(Notify([run EXCEPT !.gen = Live + 1], NoTextNotice),
                                    "notext")]
             /\ docs' = RemoveIndicator(Swapped(docs, reader), r)
             /\ slider' = SwappedSlider(slider, currentDifficulty)
        ELSE /\ runs' = [runs EXCEPT ![r] =
                           [run EXCEPT !.pc = "loop", !.gen = Live + 1,
                                     !.textNodes = nodes, !.i = 0,
                                     !.orig = [x \in 1..Len(nodes) |->
                                                 NodeText(reader, nodes[x])]]]
             /\ docs' = Swapped(docs, reader)
             /\ slider' = SwappedSlider(slider, currentDifficulty)
  /\ UNCHANGED <<apiKey, translationCache, currentDifficulty, calls, fetchCount,
                 okResponses, ttLog>>
  /\ UNCHANGED <<body, cleanContent, promptLog, speech, sent>>

\* one turn of the batch loop up to the await of translateText; translateText
\* runs up to its own first await, or returns the cached value at once
RunLoop(r) ==
  /\ r \in 1..Len(runs)
  /\ runs[r].pc = "loop"
  /\ Awaited(r)
  /\ LET run == runs[r]
         batch == Slice(run.textNodes, run.i)
         text == BatchText(docs[run.gen], batch)
         key == CacheKey(text, Num(currentDifficulty))
         entry == [batch |-> batch,
                   before |-> [x \in 1..Len(batch) |-> NodeText(docs[run.gen], batch[x])],
                   difficulty |-> currentDifficulty,
                   done |-> FALSE, hit |-> FALSE, fetched |-> FALSE, ok |-> FALSE,
                   threw |-> FALSE, value |-> <<>>]
         issued == [runs EXCEPT ![r].log = Append(@, entry)]
     IN IF run.i >= Len(run.textNodes)
        THEN /\ runs' = [runs EXCEPT ![r] = Finished(@, "completed")]
             /\ docs' = RemoveIndicator(docs, r)
             /\ UNCHANGED calls
        ELSE IF CacheHas(key)
        THEN /\ LET st == Resumed(issued, docs, r, Returned(translationCache[key]), HitMeta)
                IN runs' = st.runs /\ docs' = st.docs
             /\ UNCHANGED calls
        ELSE /\ runs' = issued
             /\ calls' = [calls EXCEPT ![r] =
                            Append(@, Call(text, Num(currentDifficulty), batch))]
             /\ UNCHANGED docs
  /\ UNCHANGED <<apiKey, translationCache, currentDifficulty, fetchCount,
                 okResponses, ttLog>>
  /\ UNCHANGED others

\* translateText after the credential read: without a credential the catch
\* block returns; with one the request is sent
TTStorage(c) ==
  /\ Idle
  /\ calls[c] # <<>>
  /\ LET call == Head(calls[c])
     IN /\ call.st = "storage"
        /\ IF ~TextKeyMissing(apiKey)
           THEN /\ calls' = [calls EXCEPT ![c] =
                               <<[call EXCEPT !.st = "fetch", !.hadKey = apiKey]>> \o Tail(@)]
                /\ fetchCount' = fetchCount + 1
                /\ UNCHANGED <<runs, docs, ttLog>>
           ELSE /\ calls' = [calls EXCEPT ![c] = Tail(@)]
                /\ Return(c, call, CatchReturn(call.text),
                          [hit |-> FALSE, hadKey |-> FALSE, fetched |-> FALSE,
                           ok |-> FALSE, failure |-> "nokey",
                           notices |-> CatchNotices("nokey")])
                /\ UNCHANGED fetchCount
  /\ UNCHANGED <<apiKey, translationCache, currentDifficulty, okResponses>>
  /\ UNCHANGED others

\* the ways the request of caller c's suspended call can settle
Outcomes(c) == IF calls[c] = <<>> THEN {} ELSE RemoteOutcomes(Head(calls[c]).text)

\* translateText after the request has settled: a completion is trimmed,
\* cached and returned; any failure goes to the catch block
TTResponse(c, outcome) ==
  /\ Idle
  /\ calls[c] # <<>>
  /\ LET call == Head(calls[c])
         key == CacheKey(call.text, call.difficulty)
         ok == outcome.kind = "ok"
         ret == IF ok THEN Returned(Trim(outcome.content)) ELSE CatchReturn(call.text)
     IN /\ call.st = "fetch"
        /\ calls' = [calls EXCEPT ![c] = Tail(@)]
        /\ translationCache' = CacheAfter(translationCache, key, ok, ret.value)
        /\ okResponses' =
             IF ok THEN okResponses \cup {[text |-> call.text,
                                           difficulty |-> call.difficulty,
                                           content |-> outcome.content]}
             ELSE okResponses
        /\ Return(c, call, ret,
                  [hit |-> FALSE, hadKey |-> call.hadKey, fetched |-> TRUE, ok |-> ok,
                   failure |-> IF ok THEN "" ELSE outcome.kind,
                   notices |-> IF ok THEN <<>> ELSE CatchNotices(outcome.kind)])
  /\ UNCHANGED <<apiKey, currentDifficulty, fetchCount>>
  /\ UNCHANGED others

\* saveOptions of the options page: the credential is stored, or cleared
\* when the field is empty
SaveOptions(key) ==
  /\ Idle
  /\ key # apiKey
  /\ apiKey' = key
  /\ UNCHANGED <<translationCache, currentDifficulty, docs, runs, calls,
                 fetchCount, okResponses, ttLog>>
  /\ UNCHANGED others

\* the inputs of the test suite's direct calls
TestTexts == {<<"h", "i">>, <<" ", "h", "i", "\n">>}
TestDifficulties == {Str(<<"b", "e", "g", "i", "n", "n", "e", "r">>), Num(5)}

\* a test awaits translateText(text, difficulty)
TestCall(text, difficulty) ==
  /\ calls[TestCaller] = <<>>
  /\ Len(ttLog) < MaxCalls
  /\ LET key == CacheKey(text, difficulty)
         call == Call(text, difficulty, <<>>)
     IN IF CacheHas(key)
        THEN /\ Return(TestCaller, call, Returned(translationCache[key]), HitMeta)
             /\ UNCHANGED calls
        ELSE /\ calls' = [calls EXCEPT ![TestCaller] = Append(@, call)]
             /\ UNCHANGED <<runs, docs, ttLog>>
  /\ UNCHANGED <<apiKey, translationCache, currentDifficulty, fetchCount, okResponses>>
  /\ UNCHANGED others

\* the difficulty payloads of translate messages: the id of a popup button,
\* a number, and a message without difficulty
Payloads ==
  {Str(<<"b", "e", "g", "i", "n", "n", "e", "r">>), Num(7), Undefined}

\* a click on the speech button of paragraph p of the live document: its
\* click listener, if it has one, calls speakText(pText)
SpeechButtonClick(p) ==
  /\ Idle
  /\ docs[Live].reader
  /\ p \in 1..Len(docs[Live].paras)
  /\ Len(speech.clicks) < MaxClicks
  /\ LET para == docs[Live].paras[p]
     IN speech' =
          [speech EXCEPT
             !.queue = IF para.listening THEN SpeakText(speech, para.pText) ELSE @,
             !.clicks = Append(@, [para |-> p, text |-> ParaText(para),
                                   pText |-> para.pText,
                                   spoken |-> IF para.listening THEN <<para.pText>>
                                              ELSE <<>>])]
  /\ UNCHANGED <<body, cleanContent, promptLog, sent, slider>>
  /\ UNCHANGED translation
\* --------------------------------------------------- getPromptForDifficulty
\* the values of the features, from the lowest levels to the highest
Vocabulary ==
  <<<<"A", "1", " ", "(", "b", "a", "s", "i", "c", ")">>,
    <<"A", "2", "-", "B", "1", " ", "(", "i", "n", "t", "e", "r", "m", "e",
     "d", "i", "a", "t", "e", ")">>,
    <<"B", "2", "-", "C", "1", " ", "(", "a", "d", "v", "a", "n", "c", "e",
     "d", ")">>>>
Grammar ==
  <<<<"p", "r", "e", "s", "e", "n", "t", " ", "t", "e", "n", "s", "e", " ",
     "o", "n", "l", "y">>,
    <<"p", "r", "e", "s", "e", "n", "t", ",", " ", "p", "a", "s", "t", ",",
     " ", "a", "n", "d", " ", "f", "u", "t", "u", "r", "e">>,
    <<"a", "l", "l", " ", "t", "e", "n", "s", "e", "s", " ", "i", "n", "c",
     "l", "u", "d", "i", "n", "g", " ", "s", "u", "b", "j", "u", "n", "c",
     "t", "i", "v", "e">>>>
Complexity ==
  <<<<"s", "i", "m", "p", "l", "e", " ", "s", "e", "n", "t", "e", "n", "c",
     "e", "s">>,
    <<"c", "o", "m", "p", "o", "u", "n", "d", " ", "s", "e", "n", "t", "e",
     "n", "c", "e", "s">>,
    <<"c", "o", "m", "p", "l", "e", "x", " ", "s", "e", "n", "t", "e", "n",
     "c", "e", "s">>>>
Idioms ==
  <<<<"n", "o", " ", "i", "d", "i", "o", "m", "s">>,
    <<"c", "o", "m", "m", "o", "n", " ", "i", "d", "i", "o", "m", "s">>,
    <<"s", "o", "p", "h", "i", "s", "t", "i", "c", "a", "t", "e", "d", " ",
     "i", "d", "i", "o", "m", "s">>>>
\* a mutant of Features: the grammar of the lowest levels is that of the
\* highest
FeaturesGrammarFirst(level) ==
  [vocabulary |-> IF level <= 3 THEN Vocabulary[1]
                  ELSE IF level <= 6 THEN Vocabulary[2]
                  ELSE Vocabulary[3],
   grammar |-> IF level <= 3 THEN Grammar[3]
               ELSE IF level <= 6 THEN Grammar[2]
               ELSE Grammar[1],
   complexity |-> IF level <= 3 THEN Complexity[1]
                  ELSE IF level <= 6 THEN Complexity[2]
                  ELSE Complexity[3],
   idioms |-> IF level <= 3 THEN Idioms[1]
              ELSE IF level <= 6 THEN Idioms[2]
              ELSE Idioms[3]]

\* const features
Features(level) ==
  [vocabulary |-> IF level <= 3 THEN Vocabulary[1]
                  ELSE IF level <= 6 THEN Vocabulary[2]
                  ELSE Vocabulary[3],
   grammar |-> IF level <= 3 THEN Grammar[1]
               ELSE IF level <= 6 THEN Grammar[2]
               ELSE Grammar[3],
   complexity |-> IF level <= 3 THEN Complexity[1]
                  ELSE IF level <= 6 THEN Complexity[2]
                  ELSE Complexity[3],
   idioms |-> IF level <= 3 THEN Idioms[1]
              ELSE IF level <= 6 THEN Idioms[2]
              ELSE Idioms[3]]

\* the text of the template literal between its placeholders
Template ==
  [opening |->
     <<"T", "r", "a", "n", "s", "l", "a", "t", "e", " ", "t", "h", "e", " ",
     "f", "o", "l", "l", "o", "w", "i", "n", "g", " ", "t", "e", "x", "t",
     "(", "s", ")", " ", "t", "o", " ", "S", "p", "a", "n", "i", "s", "h",
     " ", "a", "t", " ">>,
   vocabulary |->
     <<" ", "l", "e", "v", "e", "l", ".", " ", "U", "s", "e", ":", "\n", "\n",
     "-", " ", "V", "o", "c", "a", "b", "u", "l", "a", "r", "y", ":", " ">>,
   grammar |->
     <<"\n", "-", " ", "G", "r", "a", "m", "m", "a", "r", ":", " ">>,
   structure |->
     <<"\n", "-", " ", "S", "e", "n", "t", "e", "n", "c", "e", " ", "s", "t",
     "r", "u", "c", "t", "u", "r", "e", ":", " ">>,
   idioms |->
     <<"\n", "-", " ", "I", "d", "i", "o", "m", "a", "t", "i", "c", " ", "e",
     "x", "p", "r", "e", "s", "s", "i", "o", "n", "s", ":", " ">>,
   level |->
     <<"\n", "-", " ", "D", "i", "f", "f", "i", "c", "u", "l", "t", "y", " ",
     "l", "e", "v", "e", "l", ":", " ">>,
   advice |->
     <<"/", "1", "0", "\n", "\n", "M", "a", "i", "n", "t", "a", "i", "n", " ",
     "n", "a", "t", "u", "r", "a", "l", " ", "f", "l", "o", "w", " ", "w",
     "h", "i", "l", "e", " ", "k", "e", "e", "p", "i", "n", "g", " ", "i",
     "t", " ", "a", "t", " ", "t", "h", "e", " ", "a", "p", "p", "r", "o",
     "p", "r", "i", "a", "t", "e", " ", "l", "e", "v", "e", "l", ".", " ",
     "I", "f", " ", "t", "h", "e", "r", "e", " ", "a", "r", "e", " ", "m",
     "u", "l", "t", "i", "p", "l", "e", " ", "t", "e", "x", "t", "s", " ",
     "s", "e", "p", "a", "r", "a", "t", "e", "d", " ", "b", "y", " ", "'",
     "-", "-", "-", "'", ",", " ", "t", "r", "a", "n", "s", "l", "a", "t",
     "e", " ", "e", "a", "c", "h", " ", "o", "n", "e", " ", "s", "e", "p",
     "a", "r", "a", "t", "e", "l", "y", ".", "\n", "\n", "T", "e", "x", "t",
     "(", "s", ")", " ", "t", "o", " ", "t", "r", "a", "n", "s", "l", "a",
     "t", "e", ":", " ", "\"">>]

\* getPromptForDifficulty(text, difficulty): the level, the features chosen
\* for it and the prompt, the template filled in
GetPromptForDifficulty(text, difficulty) ==
  LET level == ParseIntOr5(difficulty)
      features == Features(level)
  IN [level |-> level,
      features |-> features,
      prompt |->
        Template.opening \o features.vocabulary
        \o Template.vocabulary \o features.vocabulary
        \o Template.grammar \o features.grammar
        \o Template.structure \o features.complexity
        \o Template.idioms \o features.idioms
        \o Template.level \o NumberToString(level)
        \o Template.advice \o text \o <<"\"">>]

\* the difficulties of the direct calls: every level of the slider, and the
\* ids of the popup's buttons
PromptDifficulties == {Num(d) : d \in 1..10} \cup {Str(level) : level \in PopupLevels}

\* direct calls of getPromptForDifficulty
MaxPrompts == 2

\* a test calls getPromptForDifficulty(text, difficulty)
PromptCall(text, difficulty) ==
  /\ Len(promptLog) < MaxPrompts
  /\ promptLog' = Append(promptLog,
                         [text |-> text, difficulty |-> difficulty,
                          result |-> GetPromptForDifficulty(text, difficulty)])
  /\ UNCHANGED <<body, cleanContent, speech, sent, slider>>
  /\ UNCHANGED translation
\* ----------------------------------------------------------- specifications
\* the content script as loaded, but for the credential and the document
InitTranslation ==
  /\ translationCache = <<>>
  /\ currentDifficulty = 5
  /\ runs = <<>>
  /\ calls = [c \in 0..MaxRuns |-> <<>>]
  /\ fetchCount = 0
  /\ okResponses = {}
  /\ ttLog = <<>>

\* no direct call of extractMainContent or getPromptForDifficulty, and
\* nothing spoken
InitOthers ==
  /\ body = NoPage
  /\ cleanContent = NotExtracted
  /\ promptLog = <<>>
  /\ speech = SpeechAtLoad
  /\ sent = <<>>
  /\ slider = NoSlider

InitCommon ==
  /\ apiKey \in BOOLEAN
  /\ InitTranslation
  /\ InitOthers

\* a page load; translate commands may arrive while a run is suspended
Init == InitCommon /\ docs \in {<<page>> : page \in Pages(MaxShort)}

Next ==
  \/ \E payload \in Payloads : OnMessage(payload)
  \/ \E r \in 1..MaxRuns : RunStorage(r)
  \/ \E r \in 1..MaxRuns : RunLoop(r)
  \/ \E r \in 1..MaxRuns : TTStorage(r)
  \/ \E r \in 1..MaxRuns : \E outcome \in Outcomes(r) : TTResponse(r, outcome)
  \/ \E key \in BOOLEAN : SaveOptions(key)

Spec == Init /\ [][Next]_vars

\* a page load with one translate command
OnFirstMessage(payload) == runs = <<>> /\ OnMessage(payload)

InitArticle ==
  InitCommon /\ docs \in {<<page>> : page \in Pages(MaxParas) \cup Fixtures}

NextArticle ==
  \/ \E payload \in Payloads : OnFirstMessage(payload)
  \/ RunStorage(1)
  \/ RunLoop(1)
  \/ TTStorage(1)
  \/ \E outcome \in Outcomes(1) : TTResponse(1, outcome)
  \/ \E key \in BOOLEAN : SaveOptions(key)

SpecArticle == InitArticle /\ [][NextArticle]_vars

\* every read of the credential and every request settles, and a run that can
\* go on after an await does
Fairness(r) ==
  /\ WF_vars(RunStorage(r))
  /\ WF_vars(RunLoop(r))
  /\ WF_vars(TTStorage(r))
  /\ WF_vars(\E outcome \in Outcomes(r) : TTResponse(r, outcome))

\* a page load with one translate command, on a page of at most MaxShort
\* paragraphs, every await of the run settling
InitFair ==
  InitCommon /\ docs \in {<<page>> : page \in Pages(MaxShort) \cup Fixtures}

SpecFair == InitFair /\ [][NextArticle]_vars /\ Fairness(1)


\* the awaits of the extension's own storage settle and a run that can go on
\* does; whether a request is ever answered is up to the remote service
LocalFairness(r) ==
  /\ WF_vars(RunStorage(r))
  /\ WF_vars(RunLoop(r))
  /\ WF_vars(TTStorage(r))

\* a page load with one translate command; the remote service may leave a
\* request unanswered for ever
SpecSilent == InitFair /\ [][NextArticle]_vars /\ LocalFairness(1)
\* the remote call as the test suite mocks it: every request is answered
\* with one fixed translated string
MockedTranslation ==
  <<"T", "r", "a", "n", "s", "l", "a", "t", "e", "d", " ", "t", "e", "x", "t">>

MockedFetch == [kind |-> "ok", content |-> MockedTranslation]

\* a page load with one translate command under the mocks of the test suite:
\* the credential is stored and stays so
InitMock == InitArticle /\ apiKey

NextMock ==
  \/ \E payload \in Payloads : OnFirstMessage(payload)
  \/ RunStorage(1)
  \/ RunLoop(1)
  \/ TTStorage(1)
  \/ TTResponse(1, MockedFetch)

SpecMock == InitMock /\ [][NextMock]_vars

\* the test suite: translateText called directly, one call after the other
InitTest == InitCommon /\ docs = <<Article(0)>>

NextTest ==
  \/ \E text \in TestTexts, difficulty \in TestDifficulties : TestCall(text, difficulty)
  \/ TTStorage(TestCaller)
  \/ \E outcome \in Outcomes(TestCaller) : TTResponse(TestCaller, outcome)
  \/ \E key \in BOOLEAN : SaveOptions(key)

SpecTest == InitTest /\ [][NextTest]_vars

\* texts and difficulties whose keys would collide were the difficulty and
\* the text not kept apart: a text that begins like the end of a difficulty,
\* with and without a colon of its own
KeyTexts == {<<"h", "i">>, <<"0", "h", "i">>, <<"0", ":", "h", "i">>}
KeyDifficulties == {Num(1), Num(10)}

\* the test suite: translateText called directly with those, the credential
\* stored
InitKeys == InitTest /\ apiKey

NextKeys ==
  \/ \E text \in KeyTexts, difficulty \in KeyDifficulties : TestCall(text, difficulty)
  \/ TTStorage(TestCaller)
  \/ \E outcome \in Outcomes(TestCaller) : TTResponse(TestCaller, outcome)

SpecKeys == InitKeys /\ [][NextKeys]_vars
\* the test suite: extractMainContent called directly on a page
InitExtract ==
  /\ apiKey = TRUE
  /\ InitTranslation
  /\ docs = <<Article(0)>>
  /\ body \in ExtractPages
  /\ cleanContent = NotExtracted
  /\ promptLog = <<>>
  /\ speech = SpeechAtLoad
  /\ sent = <<>>
  /\ slider = NoSlider

NextExtract == ExtractCall

SpecExtract == InitExtract /\ [][NextExtract]_vars

\* speech after initialize() in a window with or without speech synthesis,
\* with or without voices at once, with or without onvoiceschanged
Initialized(available, list, event) ==
  Initialize([SpeechAtLoad EXCEPT !.available = available,
                                  !.voices.list = list, !.voices.event = event])

\* the test suite: speakText called directly, with or without speech
\* synthesis in the window, whose voices are there at once
InitSpeech ==
  /\ apiKey = TRUE
  /\ InitTranslation
  /\ docs = <<Article(0)>>
  /\ body = NoPage
  /\ cleanContent = NotExtracted
  /\ promptLog = <<>>
  /\ speech \in {Initialized(a, "loaded", FALSE) : a \in BOOLEAN}
  /\ sent = <<>>
  /\ slider = NoSlider

NextSpeech ==
  \/ \E text \in SpokenTexts : SpeakTextCall(text)
  \/ UtteranceEnd
  \/ TestSpeechSynthesis

SpecSpeech == InitSpeech /\ [][NextSpeech]_vars

\* a page load in any window: the voices arrive or not, the timers of
\* initVoices fire, and speakText is called
InitVoicesAtLoad ==
  /\ apiKey = TRUE
  /\ InitTranslation
  /\ docs = <<Article(0)>>
  /\ body = NoPage
  /\ cleanContent = NotExtracted
  /\ promptLog = <<>>
  /\ speech \in {Initialized(a, list, e) :
                   a \in BOOLEAN, list \in {"empty", "loaded"}, e \in BOOLEAN}
  /\ sent = <<>>
  /\ slider = NoSlider

NextVoices ==
  \/ VoicesChanged
  \/ FallbackTimer
  \/ RetryTimer
  \/ TestSpeechSynthesis
  \/ UtteranceEnd
  \/ \E text \in SpokenTexts : SpeakTextCall(text)

SpecVoices == InitVoicesAtLoad /\ [][NextVoices]_vars

\* difficulty payloads the popup does not send: numbers outside 1..10 and a
\* string of digits
OtherPayloads == {Num(50), Num(0), Num(-3), Str(<<"1", "2">>)}

\* a page load on a page of one paragraph; the translate commands carry any
\* payload
InitDifficulty == InitCommon /\ docs = <<Article(1)>>

NextDifficulty ==
  \/ \E payload \in Payloads \cup OtherPayloads : OnMessage(payload)
  \/ \E r \in 1..MaxRuns : RunStorage(r)
  \/ \E r \in 1..MaxRuns : RunLoop(r)
  \/ \E r \in 1..MaxRuns : TTStorage(r)
  \/ \E r \in 1..MaxRuns : \E outcome \in Outcomes(r) : TTResponse(r, outcome)
  \/ \E key \in BOOLEAN : SaveOptions(key)

SpecDifficulty == InitDifficulty /\ [][NextDifficulty]_vars

\* a page load on a page of one paragraph with one translate command, and
\* the user at the slider of the reader layout
NextSlider ==
  \/ \E payload \in Payloads : OnFirstMessage(payload)
  \/ \E r \in 1..MaxRuns : RunStorage(r)
  \/ \E r \in 1..MaxRuns : RunLoop(r)
  \/ \E r \in 1..MaxRuns : TTStorage(r)
  \/ \E r \in 1..MaxRuns : \E outcome \in Outcomes(r) : TTResponse(r, outcome)
  \/ \E key \in BOOLEAN : SaveOptions(key)
  \/ \E v \in SliderValues : SliderChange(v)
  \/ SliderQuiet

SpecSlider == InitDifficulty /\ [][NextSlider]_vars
\* getPromptForDifficulty called directly
InitPrompt == InitCommon /\ apiKey /\ docs = <<Article(0)>>

NextPrompt ==
  \E text \in TestTexts, difficulty \in PromptDifficulties : PromptCall(text, difficulty)

SpecPrompt == InitPrompt /\ [][NextPrompt]_vars

\* a page load on a page of one paragraph; every translate command comes
\* from a difficulty button of the popup
NextPopup ==
  \/ \E level \in PopupLevels : PopupClick(level)
  \/ \E r \in 1..MaxRuns : RunStorage(r)
  \/ \E r \in 1..MaxRuns : RunLoop(r)
  \/ \E r \in 1..MaxRuns : TTStorage(r)
  \/ \E r \in 1..MaxRuns : \E outcome \in Outcomes(r) : TTResponse(r, outcome)
  \/ \E key \in BOOLEAN : SaveOptions(key)

SpecPopup == InitDifficulty /\ [][NextPopup]_vars

\* a page load with one translate command, and clicks on the speech buttons
\* of the reader layout
NextReader ==
  \/ \E payload \in Payloads : OnFirstMessage(payload)
  \/ RunStorage(1)
  \/ RunLoop(1)
  \/ TTStorage(1)
  \/ \E outcome \in Outcomes(1) : TTResponse(1, outcome)
  \/ \E key \in BOOLEAN : SaveOptions(key)
  \/ \E p \in 1..MaxShort : SpeechButtonClick(p)

SpecReader == InitFair /\ [][NextReader]_vars

\* a page load with one translate command, on a page with an ad
InitAds == InitCommon /\ docs \in {<<page>> : page \in AdPages}

SpecAds == InitAds /\ [][NextArticle]_vars

\* a page load with one translate command, on a short page or on a page
\* whose text collides with the separator
InitSeparator ==
  InitCommon /\ docs \in {<<page>> : page \in Pages(MaxShort) \cup SeparatorPages}

SpecSeparator == InitSeparator /\ [][NextArticle]_vars
\* ------------------------------------------------- translateText: the claims
\* the fetch requests issued before direct call n started
FetchesBefore(n) == IF n = 1 THEN 0 ELSE ttLog[n - 1].fetches

SameInput(a, b) == a.text = b.text /\ a.difficulty = b.difficulty

\* a direct call that missed the cache and got a successful remote response
Succeeded(e) == ~e.hit /\ e.ok

\* C1: when translateText(t, d) is called twice in sequence and the first call
\* succeeds, the two calls issue exactly one remote call in total, the second
\* call issues none, and both return the same value.
CacheCorrectness ==
  \A n \in 1..Len(ttLog) - 1 :
    (SameInput(ttLog[n], ttLog[n + 1]) /\ Succeeded(ttLog[n]))
      => /\ ttLog[n + 1].fetches - FetchesBefore(n) = 1
         /\ ttLog[n + 1].fetches = ttLog[n].fetches
         /\ ~ttLog[n + 1].ret.threw
         /\ ttLog[n + 1].ret = ttLog[n].ret

\* C1 witness: a successful call of a text with white space around it is
\* followed by a call with the same input, which is answered
CacheCorrectnessWitness ==
  /\ Len(ttLog) >= 2
  /\ SameInput(ttLog[1], ttLog[2])
  /\ Succeeded(ttLog[1])
  /\ ttLog[1].text = <<" ", "h", "i", "\n">>
  /\ ttLog[2].hit
  /\ ttLog[2].ret.value = <<"Z", " ", "h", "i">>

\* C2: whenever the remote call of translateText(t, d) fails, translateText
\* does not throw and returns exactly the text t.
FailureFallback ==
  \A n \in 1..Len(ttLog) :
    (ttLog[n].fetched /\ ~ttLog[n].ok)
      => ~ttLog[n].ret.threw /\ ttLog[n].ret.value = ttLog[n].text

\* C2 witness: the remote call for a text with white space around it failed
FailureFallbackWitness ==
  \E n \in 1..Len(ttLog) :
    /\ ttLog[n].fetched /\ ~ttLog[n].ok
    /\ ttLog[n].text = <<" ", "h", "i", "\n">>
    /\ fetchCount = n

\* every cache entry holds the trimmed completion of a successful remote
\* response to a request with that entry's text and difficulty
EntriesFromResponses ==
  \A key \in DOMAIN translationCache :
    \E h \in okResponses :
      /\ key = JSString(h.difficulty) \o <<":">> \o h.text
      /\ translationCache[key] = TrimEnd(TrimStart(h.content))

\* a direct call that returns after a failure leaves the cache as it was
FailureKeepsCache ==
  (Len(ttLog') = Len(ttLog) + 1 /\ ~ttLog'[Len(ttLog')].ok)
    => translationCache' = translationCache

\* after a failed call the next call with the same input misses the cache
\* again, and issues the remote call when it finds a credential
RetryAfterFailure ==
  \A n \in 1..Len(ttLog) - 1 :
    (SameInput(ttLog[n], ttLog[n + 1]) /\ ~ttLog[n].ok)
      => /\ ~ttLog[n + 1].hit
         /\ ttLog[n + 1].hadKey
              => ttLog[n + 1].fetched /\ ttLog[n + 1].fetches = ttLog[n].fetches + 1

\* C3, as amended: every cache entry was written by a successful remote
\* response for that entry's difficulty and text; a failed call never adds or
\* changes a cache entry; so the next call with the same input misses the
\* cache again and issues the remote call whenever a credential is stored
\* when it reads it.
NoNegativeCaching ==
  /\ [](EntriesFromResponses /\ RetryAfterFailure)
  /\ [][FailureKeepsCache]_vars

\* C3 witness: a call fails, the next call with the same input fetches again
\* and succeeds, and its entry is the only one in the cache
NoNegativeCachingWitness ==
  /\ Len(ttLog) >= 2
  /\ SameInput(ttLog[1], ttLog[2])
  /\ ~ttLog[1].ok /\ ttLog[1].fetched
  /\ Succeeded(ttLog[2])
  /\ DOMAIN translationCache = {CacheKey(ttLog[2].text, ttLog[2].difficulty)}

\* C3 as stated: after any failed call, missing credential included, the next
\* call with the same input issues the remote call again
RetryAlwaysFetches ==
  \A n \in 1..Len(ttLog) - 1 :
    (SameInput(ttLog[n], ttLog[n + 1]) /\ ~ttLog[n].ok) => ttLog[n + 1].fetched

\* C10: after translateText(t, d1) has succeeded and been cached, a call
\* translateText(t, d2) with another difficulty, not translated before, misses
\* the cache and issues its own remote call (its credential read finding the
\* credential).
DistinctDifficultyMisses ==
  \A n \in 1..Len(ttLog) :
    ( /\ \E m \in 1..n - 1 :
           /\ ttLog[m].text = ttLog[n].text
           /\ ttLog[m].difficulty # ttLog[n].difficulty
           /\ Succeeded(ttLog[m])
      /\ \A m \in 1..n - 1 : ~(SameInput(ttLog[m], ttLog[n]) /\ ttLog[m].ok) )
      => /\ ~ttLog[n].hit
         /\ ttLog[n].hadKey
              => ttLog[n].fetched /\ ttLog[n].fetches = FetchesBefore(n) + 1

\* C10 witness: the same text is translated at two difficulties, each by its
\* own remote call, and the cache holds one entry for each
DistinctDifficultyWitness ==
  /\ Len(ttLog) = 2
  /\ ttLog[1].text = ttLog[2].text
  /\ ttLog[1].difficulty # ttLog[2].difficulty
  /\ Succeeded(ttLog[1]) /\ Succeeded(ttLog[2])
  /\ fetchCount = 2
  /\ Cardinality(DOMAIN translationCache) = 2

\* a direct call that missed the cache and found no credential stored
NoCredential(e) == ~e.hit /\ ~e.hadKey

\* a call that found no credential has issued no request and returns its
\* input text
ShortCircuit ==
  \A n \in 1..Len(ttLog) :
    NoCredential(ttLog[n])
      => /\ ~ttLog[n].fetched
         /\ ttLog[n].fetches = FetchesBefore(n)
         /\ ~ttLog[n].ret.threw
         /\ ttLog[n].ret.value = ttLog[n].text

\* the step in which such a call returns changes neither the cache nor the
\* number of requests
ShortCircuitFrame ==
  (Len(ttLog') = Len(ttLog) + 1 /\ NoCredential(ttLog'[Len(ttLog')]))
    => translationCache' = translationCache /\ fetchCount' = fetchCount

\* C11: when no credential is stored at the time of a cache-miss translateText
\* call, the call issues no remote request, returns the original input text,
\* and leaves the cache unchanged.
MissingCredential == []ShortCircuit /\ [][ShortCircuitFrame]_vars

\* C11 witness: after a translation was cached the credential is cleared, and
\* a call for a text with white space around it returns that text, the cache
\* and the number of requests being what they were
MissingCredentialWitness ==
  /\ Len(ttLog) = 2
  /\ Succeeded(ttLog[1])
  /\ NoCredential(ttLog[2])
  /\ ttLog[2].text = <<" ", "h", "i", "\n">>
  /\ ttLog[2].ret.value = <<" ", "h", "i", "\n">>
  /\ fetchCount = 1
  /\ DOMAIN translationCache = {CacheKey(ttLog[1].text, ttLog[1].difficulty)}

\* the remote capability has answered deterministically: two requests for the
\* same text and difficulty ended the same way
Deterministic ==
  \A m, n \in 1..Len(ttLog) :
    (ttLog[m].fetched /\ ttLog[n].fetched /\ SameInput(ttLog[m], ttLog[n]))
      => ttLog[m].ok = ttLog[n].ok /\ ttLog[m].ret = ttLog[n].ret

\* call n returned what a request for its input returns: one was issued for
\* the same input before, and ended with the same result
AsRequested(n) ==
  \E m \in 1..n - 1 :
    /\ SameInput(ttLog[m], ttLog[n])
    /\ ttLog[m].fetched
    /\ ttLog[m].ret = ttLog[n].ret

\* C16, as amended: for a remote capability that answers deterministically,
\* every sequence of translateText calls returns the same results with the
\* cache as the same sequence run with caching disabled, provided a credential
\* is stored whenever a call is answered from the cache.
PureMemoization ==
  Deterministic =>
    \A n \in 1..Len(ttLog) :
      /\ (ttLog[n].hit /\ ttLog[n].keyNow) => AsRequested(n)
      /\ (~ttLog[n].hit /\ ~ttLog[n].fetched) => ttLog[n].ret.value = ttLog[n].text

\* C16 witness: of three calls with the same input the first finds no
\* credential, the second is translated, and the third, the credential still
\* stored, is answered from the cache with the second's result
PureMemoizationWitness ==
  /\ Len(ttLog) = 3
  /\ Deterministic
  /\ SameInput(ttLog[1], ttLog[2]) /\ SameInput(ttLog[2], ttLog[3])
  /\ NoCredential(ttLog[1])
  /\ Succeeded(ttLog[2])
  /\ ttLog[3].hit /\ ttLog[3].keyNow
  /\ ttLog[3].ret = ttLog[2].ret
  /\ ttLog[3].ret.value # ttLog[3].text

\* C16 as stated: a call answered from the cache returns what the same call
\* returns with caching disabled, which is its input text when no credential
\* is stored
PureMemoizationAsStated ==
  Deterministic =>
    \A n \in 1..Len(ttLog) :
      ttLog[n].hit =>
        IF ttLog[n].keyNow THEN AsRequested(n)
        ELSE ttLog[n].ret.value = ttLog[n].text

\* C25: every translateText call that ends in failure, whether the credential
\* is missing, the response is not a success or its body is malformed, has
\* shown at least one error notification when it returns.
FailuresReported ==
  \A n \in 1..Len(ttLog) :
    ~ttLog[n].hit /\ ~ttLog[n].ok
      => ttLog[n].notices # <<>> /\ ttLog[n].ret.value = ttLog[n].text

\* three calls have failed and shown a notification: one without a
\* credential, one on a response that is not ok, one on a malformed body
FailuresReportedWitness ==
  \A kind \in {"nokey", "http", "badjson"} :
    \E n \in 1..Len(ttLog) :
      /\ ~ttLog[n].hit /\ ~ttLog[n].ok
      /\ ttLog[n].failure = kind
      /\ ttLog[n].notices = <<FailedNotice>>
\* --------------------------------------------------- translatePage: the claims
Runs == 1..Len(runs)

\* the text of unit x (counted from 1) of run r
UnitText(r, x) == NodeText(docs[runs[r].gen], runs[r].textNodes[x])

\* the parts of the string translateText returned for a batch
PartsOf(e) == Split(e.value, Separator)

\* ceil(n / 5)
BatchCount(n) == (n + 4) \div 5

\* the units of batch j (counted from 1) of n units, as positions from 1
BatchUnits(j, n) == (5 * (j - 1) + 1)..(IF 5 * j <= n THEN 5 * j ELSE n)

\* unit x of the batch of entry e holds part x when that part exists and is
\* not empty, and the text it had before the call otherwise
Written(r, e) ==
  LET parts == PartsOf(e)
      doc == docs[runs[r].gen]
  IN \A x \in 1..Len(e.batch) :
       NodeText(doc, e.batch[x]) =
         IF x <= Len(parts) /\ parts[x] # <<>> THEN parts[x] ELSE e.before[x]

\* the units of the batches that have not returned hold their original text
RestUntouched(r) ==
  LET back == {j \in 1..Len(runs[r].log) : runs[r].log[j].done}
  IN \A x \in 1..Len(runs[r].textNodes) :
       x > 5 * Cardinality(back) => UnitText(r, x) = runs[r].orig[x]

\* C4, as amended: given 12 units and batch size 5, exactly 3 batches are
\* issued (sizes 5, 5, 2); if the second batch's response contains only 3 of
\* 5 parts (none of them empty), units 6-8 receive translations and units
\* 9-10 retain their original text.
BatchCorrespondence ==
  \A r \in Runs :
    LET run == runs[r] IN
    Len(run.textNodes) = 12 =>
      /\ Len(run.log) <= 3
      /\ \A j \in 1..Len(run.log) : Len(run.log[j].batch) = <<5, 5, 2>>[j]
      /\ run.pc = "done" => Len(run.log) = 3
      /\ (Len(run.log) >= 2 /\ run.log[2].done)
           => LET parts == PartsOf(run.log[2]) IN
              (Len(parts) = 3 /\ \A x \in 1..3 : parts[x] # <<>>)
                => /\ \A x \in 6..8 : UnitText(r, x) = parts[x - 5]
                   /\ \A x \in 9..10 : UnitText(r, x) = run.orig[x]

\* C4 witness: a run over 12 units has issued its three batches, and the
\* answer to the second one had 3 parts
BatchCorrespondenceWitness ==
  \E r \in Runs :
    /\ Len(runs[r].textNodes) = 12
    /\ runs[r].pc = "done"
    /\ Len(runs[r].log) = 3
    /\ runs[r].log[2].fetched /\ runs[r].log[2].ok
    /\ Len(PartsOf(runs[r].log[2])) = 3
    /\ UnitText(r, 8) = Translate(runs[r].orig[8])

\* C4 as stated: with 3 of 5 parts in the second batch's response, units 6-7
\* receive translations and units 8-10 retain their original text
BatchCorrespondenceAsStated ==
  \A r \in Runs :
    LET run == runs[r] IN
    (Len(run.textNodes) = 12 /\ Len(run.log) >= 2 /\ run.log[2].done)
      => LET parts == PartsOf(run.log[2]) IN
         Len(parts) = 3
           => /\ \A x \in 6..7 : UnitText(r, x) = parts[x - 5]
              /\ \A x \in 8..10 : UnitText(r, x) = run.orig[x]

\* C5, as amended: for a batch of m units whose returned string splits into k
\* parts, unit i of the batch is overwritten with part i exactly when i < k
\* and part i is not empty; the other units of the batch keep their text;
\* parts with index >= m are ignored; and the run continues with the next
\* batch.
PartialBatch ==
  \A r \in Runs :
    LET run == runs[r] IN
    /\ \A j \in 1..Len(run.log) : run.log[j].done => Written(r, run.log[j])
    /\ RestUntouched(r)
    /\ (run.pc = "done" /\ run.textNodes # <<>>)
         => 5 * Len(run.log) >= Len(run.textNodes)

\* C5 witness: in one run the answer to the first batch was short of parts,
\* the answer to the second had an empty part, which left its unit alone, and
\* the answer to the third had a part too many
PartialBatchWitness ==
  \E r \in Runs :
    LET run == runs[r] IN
    /\ run.pc = "done"
    /\ Len(run.log) = 3
    /\ \A j \in 1..3 : run.log[j].fetched /\ run.log[j].ok
    /\ Len(PartsOf(run.log[1])) < Len(run.log[1].batch)
    /\ PartsOf(run.log[2])[2] = <<>>
    /\ UnitText(r, 7) = run.orig[7]
    /\ UnitText(r, 8) = Translate(run.orig[8])
    /\ Len(PartsOf(run.log[3])) > Len(run.log[3].batch)

\* C5 as stated: unit i of the batch is overwritten with part i exactly when
\* i < k
PartialBatchAsStated ==
  \A r \in Runs :
    \A j \in 1..Len(runs[r].log) :
      LET e == runs[r].log[j]
          parts == PartsOf(e)
      IN e.done =>
           \A x \in 1..Len(e.batch) :
             NodeText(docs[runs[r].gen], e.batch[x]) =
               IF x <= Len(parts) THEN parts[x] ELSE e.before[x]

\* C6: a run over n units forms exactly ceil(n/5) batches, and batch j holds
\* units 5j .. min(5j+4, n-1) (counted from 0) in document order.
BatchPartition ==
  \A r \in Runs :
    LET run == runs[r]
        n == Len(run.textNodes)
    IN /\ Len(run.log) <= BatchCount(n)
       /\ \A j \in 1..Len(run.log) :
            run.log[j].batch = [x \in 1..Cardinality(BatchUnits(j, n)) |->
                                  run.textNodes[5 * (j - 1) + x]]
       /\ (run.pc = "done" /\ n > 0) => Len(run.log) = BatchCount(n)

\* C6 witness: runs over 5, 10 and 12 units are possible, and one over 12
\* units has ended with three batches
BatchPartitionWitness ==
  \E r \in Runs :
    /\ runs[r].pc = "done"
    /\ Len(runs[r].textNodes) = 12
    /\ Len(runs[r].log) = 3
    /\ Len(runs[r].log[3].batch) = 2

\* C7: within one run at most one translate call is in flight, and the call
\* for a batch is issued only after the response for the batch before it has
\* been received and applied to its units.
SequentialBatches ==
  \A r \in Runs :
    LET run == runs[r]
        n == Len(run.log)
    IN /\ Len(calls[r]) <= 1
       /\ \A j \in 1..n - 1 : run.log[j].done /\ Written(r, run.log[j])
       /\ calls[r] # <<>> <=> (n > 0 /\ ~run.log[n].done)
       /\ calls[r] # <<>> => Head(calls[r]).batch = run.log[n].batch

\* C7 witness: a run waits for the answer to its second batch, the first one
\* answered and applied, while another run waits for an answer too
SequentialBatchesWitness ==
  \E r, q \in Runs :
    /\ r # q
    /\ Len(runs[r].log) = 2
    /\ runs[r].log[1].fetched /\ runs[r].log[1].ok
    /\ calls[r] # <<>> /\ Head(calls[r]).st = "fetch"
    /\ calls[q] # <<>>

\* C8 as stated: when the translation of a batch fails, no translate call is
\* issued for any later batch of the run, and the units of the later batches
\* keep their original text.
AbortAfterFailedBatch ==
  \A r \in Runs :
    \A j \in 1..Len(runs[r].log) :
      (runs[r].log[j].done /\ ~runs[r].log[j].ok)
        => /\ Len(runs[r].log) = j
           /\ \A x \in 1..Len(runs[r].textNodes) :
                x > 5 * j => UnitText(r, x) = runs[r].orig[x]

\* C9 as stated: at most one translate run is in progress at any time.
OneRunAtATime == Cardinality({r \in Runs : InProgress(r)}) <= 1

\* a run whose read of the credential found none has ended, having shown the
\* notice and nothing else, without extraction, swap, text nodes or
\* translateText call; the page is the page as loaded, no request has been
\* issued and the cache is empty
NoKeyRunEnded ==
  \A r \in Runs :
    runs[r].credential = "missing"
      => /\ runs[r].pc = "done"
         /\ runs[r].notices = <<ConfigureNotice>>
         /\ ~runs[r].extracted /\ runs[r].gen = 0
         /\ runs[r].textNodes = <<>> /\ runs[r].log = <<>> /\ calls[r] = <<>>
         /\ Len(docs) = 1 /\ docs[1] \in Pages(MaxParas) \cup Fixtures
         /\ fetchCount = 0 /\ translationCache = <<>>

\* the step in which a run finds the credential missing changes the document
\* only by removing the loading indicator, and nothing of the cache, the
\* requests and the calls
NoKeyRunFrame ==
  \A r \in Runs :
    (runs[r].credential = "unread" /\ runs'[r].credential = "missing")
      => /\ docs' = RemoveIndicator(docs, r)
         /\ translationCache' = translationCache
         /\ fetchCount' = fetchCount
         /\ calls' = calls

\* C12: when the credential is missing at the start of a run, the run ends
\* without retry after showing a user-visible notice, and between the command
\* and the end of the run no extraction, no document swap, no remote call and
\* no cache change occur (the live page content is left as it was).
NoKeyNoEffect == []NoKeyRunEnded /\ [][NoKeyRunFrame]_vars

\* C12 witness: the run on the page of two paragraphs found no credential and
\* has ended with the notice, the page being as it was loaded
NoKeyNoEffectWitness ==
  /\ Len(runs) = 1
  /\ runs[1].credential = "missing"
  /\ runs[1].outcome = "nokey"
  /\ runs[1].notices = <<ConfigureNotice>>
  /\ docs = <<TwoParagraphPage>>

\* C13: a run whose extraction yields empty content, or whose partitioning
\* yields zero translatable units, issues no remote call, reports an error to
\* the user, and terminates without retry.
NoContentEndsRun ==
  \A r \in Runs :
    LET run == runs[r] IN
    (run.extracted /\ (run.content.empty \/ run.textNodes = <<>>))
      => /\ run.pc = "done"
         /\ run.log = <<>> /\ calls[r] = <<>> /\ fetchCount = 0
         /\ run.notices =
              <<IF run.content.empty THEN NoContentNotice ELSE NoTextNotice>>
         /\ \A g \in 1..Len(docs) : r \notin docs[g].indicators

\* C13 witness: the run on an article whose paragraphs are all hidden found
\* its content empty and has ended with the error shown, the page not swapped
NoContentEndsRunWitness ==
  /\ Len(runs) = 1
  /\ runs[1].extracted /\ runs[1].content.empty
  /\ runs[1].pc = "done"
  /\ runs[1].notices = <<NoContentNotice>>
  /\ Len(docs) = 1

\* run r has returned and its loading indicator is in no document
Ended(r) ==
  /\ r <= Len(runs)
  /\ runs[r].pc = "done"
  /\ \A g \in 1..Len(docs) : r \notin docs[g].indicators

\* the batches of run r whose translateText call failed
FailedBatches(r) == {j \in 1..Len(runs[r].log) : runs[r].log[j].done /\ ~runs[r].log[j].ok}

\* every error of run r was shown: the one that ended the run, and one notice
\* for every failed batch; translateText has thrown nothing to the run
Reported(r) ==
  LET run == runs[r] IN
  /\ \A j \in 1..Len(run.log) : ~run.log[j].threw
  /\ CASE run.outcome = "nokey" -> run.notices = <<ConfigureNotice>>
       [] run.outcome = "nocontent" -> run.notices = <<NoContentNotice>>
       [] run.outcome = "notext" -> run.notices = <<NoTextNotice>>
       [] run.outcome = "completed" ->
            run.notices = [x \in 1..Cardinality(FailedBatches(r)) |-> FailedNotice]
       [] OTHER -> FALSE

\* C14: every started run eventually terminates with its loading indicator
\* removed, on every path, provided every credential read and every remote
\* call eventually completes; no error escapes the run unreported.
RunsTerminate ==
  /\ \A r \in 1..MaxRuns : (r <= Len(runs)) ~> Ended(r)
  /\ [](\A r \in Runs : runs[r].pc = "done" => Ended(r) /\ Reported(r))

\* C14 witness: a run has ended, its indicator removed, after a short answer
\* to its first batch and a failed request for its second, which was reported
RunsTerminateWitness ==
  \E r \in Runs :
    /\ Ended(r) /\ runs[r].outcome = "completed"
    /\ Len(runs[r].log) = 2
    /\ runs[r].log[1].ok /\ Len(PartsOf(runs[r].log[1])) < Len(runs[r].log[1].batch)
    /\ runs[r].log[2].fetched /\ ~runs[r].log[2].ok
    /\ runs[r].notices = <<FailedNotice>>

\* the positions (from 1) of node ref among the units of run r
UnitsAt(r, ref) == {x \in 1..Len(runs[r].textNodes) : runs[r].textNodes[x] = ref}

\* C15: in every run, each unit is written at most once, and only by the batch
\* call whose batch contains that unit; no batch call writes a unit belonging
\* to another batch.
WrittenOnce ==
  \A r \in Runs :
    LET run == runs[r]
        n == Len(run.textNodes)
    IN /\ \A a, b \in 1..Len(run.writes) :
            a # b => run.writes[a].ref # run.writes[b].ref
       /\ \A a \in 1..Len(run.writes) :
            /\ run.log[run.writes[a].batch].done
            /\ \E x \in BatchUnits(run.writes[a].batch, n) :
                 UnitsAt(r, run.writes[a].ref) = {x}
       /\ \A x \in 1..n :
            (\A a \in 1..Len(run.writes) : run.writes[a].ref # run.textNodes[x])
              => UnitText(r, x) = run.orig[x]

\* C15 witness: two runs have ended, one of them having written each of its
\* six units, the sixth by its second batch
WrittenOnceWitness ==
  \E r, q \in Runs :
    /\ r # q
    /\ runs[r].pc = "done" /\ runs[q].pc = "done"
    /\ Len(runs[r].textNodes) = 6
    /\ Len(runs[r].writes) = 6
    /\ runs[r].writes[6] = [batch |-> 2, ref |-> runs[r].textNodes[6]]
    /\ runs[q].writes # <<>>

\* a step keeps every cache entry, key and value
EntriesKept ==
  \A key \in DOMAIN translationCache :
    /\ key \in DOMAIN translationCache'
    /\ translationCache'[key] = translationCache[key]

\* C17 as stated: no operation removes a cache entry, and once a key is
\* present its value never changes, for any sequence and interleaving of runs.
CacheEntriesPersist == [][EntriesKept]_vars

\* C18 as stated: for a page with one article holding two paragraphs and one
\* advertisement element, a translate run with a remote call that always
\* returns one fixed translated string ends with a rendered document that has
\* exactly two paragraph containers, each with a speech-trigger control,
\* without the ad text, and with both paragraphs' text equal to the fixed
\* translation.
EndToEnd ==
  (Len(runs) = 1 /\ runs[1].pc = "done" /\ docs[1] = TwoParagraphPage)
    => LET doc == docs[Live] IN
       /\ doc.reader
       /\ Len(doc.paras) = 2
       /\ \A p \in 1..Len(doc.paras) :
            /\ ParaText(doc.paras[p]) # AdText
            /\ ParaText(doc.paras[p]) = MockedTranslation

\* text node a comes before text node b in document order: in an earlier
\* container, or in the same one, where the button comes first
Precedes(a, b) == a[1] < b[1] \/ (a[1] = b[1] /\ a[2] < b[2])

\* the text nodes of a document
Leaves(doc) ==
  UNION {{<<p, k>> : k \in 0..Len(doc.paras[p].texts)} : p \in 1..Len(doc.paras)}

\* C19: the partitioner returns the accepted text leaves of the content region
\* in document order, and partitioning the same unmodified region again
\* returns the same sequence of nodes with the same texts.
OrderPreservation ==
  \A r \in Runs :
    LET run == runs[r]
        n == Len(run.textNodes)
    IN (run.gen > 0) =>
         /\ \A x, y \in 1..n : x < y => Precedes(run.textNodes[x], run.textNodes[y])
         /\ \A x \in 1..n : AcceptNode(run.orig[x])
         /\ \A ref \in Leaves(docs[run.gen]) :
              (UnitsAt(r, ref) = {}) => ~AcceptNode(NodeText(docs[run.gen], ref))
         /\ (run.writes = <<>>)
              => /\ TextNodes(docs[run.gen]) = run.textNodes
                 /\ [x \in 1..n |-> UnitText(r, x)] = run.orig

\* C19 witness: on the page whose first paragraph holds three text nodes, one
\* of them a single character, the run has collected the button and the two
\* longer nodes of the first container, then those of the second, and waits
\* for the answer to its first batch
OrderPreservationWitness ==
  /\ Len(runs) = 1
  /\ runs[1].textNodes = <<<<1, 0>>, <<1, 1>>, <<1, 3>>, <<2, 0>>, <<2, 1>>>>
  /\ runs[1].orig[2] = <<" ", "h", "i", " ">>
  /\ runs[1].writes = <<>>
  /\ calls[1] # <<>>

\* the elements of the pages that match the noise-exclusion predicate: a form
\* element, an element whose class contains "advertisement", an element
\* hidden by an inline display style
Noise == {"form", "advertisement", "hidden"}

\* the texts of the page that lie in an element matching the predicate
NoiseTexts(doc) ==
  UNION {{doc.paras[p].texts[k] : k \in 1..Len(doc.paras[p].texts)} :
           p \in {q \in 1..Len(doc.paras) : doc.paras[q].within \in Noise}}

\* C20 as stated: the extracted content region contains no element matching
\* the noise-exclusion predicate, so no translatable unit's text originates
\* from such an element.
NoiseExcluded ==
  (Len(runs) = 1 /\ runs[1].extracted)
    => /\ \A p \in 1..Len(runs[1].content.paras) :
            runs[1].content.paras[p].within \notin Noise
       /\ \A x \in 1..Len(runs[1].orig) : runs[1].orig[x] \notin NoiseTexts(docs[1])

\* the texts of the units of the batch of a log entry, as they are joined
Units(e) == [x \in 1..Len(e.before) |-> Trim(e.before[x])]

\* C30: joining a batch and splitting it again is a round trip: in every
\* batch of a run no unit's text holds the separator, and the composite text
\* split at the separator is the sequence of the batch's unit texts, in
\* their order and number.
SerialisationRoundTrip ==
  \A r \in Runs : \A n \in 1..Len(runs[r].log) :
    LET units == Units(runs[r].log[n])
    IN /\ \A x \in 1..Len(units) : ~Contains(units[x], Separator)
       /\ Split(Join(units, Separator), Separator) = units
\* ------------------------------------------- extractMainContent: the claims
\* the selectors whose match has more than MinLength characters of text
Qualifying(matches) ==
  {s \in 1..Len(matches) : matches[s].found /\ matches[s].length > MinLength}

\* C21: the region extractMainContent chooses is the match of the first
\* selector, in the order of mainSelectors, whose match has more than
\* MinLength characters of trimmed text, and the whole cleaned document when
\* no selector has such a match; a match of MinLength characters or fewer is
\* never the region.
RegionSelection ==
  cleanContent.done =>
    LET q == Qualifying(body.matches)
    IN cleanContent.region =
         IF q = {} THEN Temp ELSE CHOOSE s \in q : \A t \in q : s <= t

\* the elements of the region the call returned
Kept == {i \in 1..Len(body.elements) : Chain(body.elements, i) \cap cleanContent.gone = {}}

\* element i of the returned region has no text, no image and no link
EmptyElement(i) ==
  LET tree == body.elements
      gone == cleanContent.gone
  IN /\ Trim(TextContent(tree, gone, i)) = <<>>
     /\ tree[i].tag \notin {"img", "a"}
     /\ ~QuerySelector(tree, gone, i, "img")
     /\ ~QuerySelector(tree, gone, i, "a")

\* C34: after extraction, every cleaning step applied, the region returned
\* holds no empty element: none without text, image and link.
NoEmptyElements ==
  cleanContent.done => \A i \in Kept : ~EmptyElement(i)
\* -------------------------------------------------- difficulty: the claims
\* the difficulty is an integer from 1 to 10
DifficultyInRange == currentDifficulty \in 1..10

\* a step that changes the difficulty is the start of a run: a translate
\* command has been received
ChangedByCommand ==
  currentDifficulty' # currentDifficulty => Len(runs') = Len(runs) + 1

\* C22: after any translate commands, whatever their difficulty payloads,
\* the current difficulty is an integer from 1 to 10, and it changes only in
\* the step that starts the run of a translate command.
DifficultyInvariant == []DifficultyInRange /\ [][ChangedByCommand]_vars

\* C28: an element of the article that its class marks as an ad, with or
\* without text, is not in the markup extractMainContent returns: no
\* paragraph of the extracted content lies within such an element.
AdsExcluded ==
  \A r \in Runs :
    runs[r].extracted =>
      \A j \in 1..Len(runs[r].content.paras) :
        runs[r].content.paras[j].within \notin AdElements

\* the tracking parameters
TrackingParameters ==
  {<<"u", "t", "m", "_", "s", "o", "u", "r", "c", "e">>, <<"u", "t", "m", "_", "m", "e", "d", "i", "u", "m">>,
    <<"u", "t", "m", "_", "c", "a", "m", "p", "a", "i", "g", "n">>, <<"r", "e", "f">>, <<"s", "o", "u", "r", "c", "e">>}

\* the parameters of a query that are no tracking parameters, in their order
Untracked(query) ==
  LET other(param) == param.name \notin TrackingParameters
  IN SelectSeq(SearchParams(query), other)

\* C29: after extraction every link whose href is a URL has none of the
\* parameters utm_source, utm_medium, utm_campaign, ref and source in its
\* query, and its other parameters, its host and its path are those it had.
TrackingStripped ==
  cleanContent.done =>
    \A i \in 1..Len(body.links) :
      LET before == ParseURL(body.links[i])
          after == ParseURL(cleanContent.links[i])
      IN before.valid =>
           /\ after.valid
           /\ \A k \in 1..Len(SearchParams(after.query)) :
                SearchParams(after.query)[k].name \notin TrackingParameters
           /\ SearchParams(after.query) = Untracked(before.query)
           /\ after.host = before.host
           /\ after.pathname = before.pathname

\* a link with a tracking parameter and another parameter has been cleaned:
\* its query is left with the other parameter
TrackingStrippedWitness ==
  /\ cleanContent.done
  /\ \E i \in 1..Len(body.links) :
       LET before == ParseURL(body.links[i])
       IN /\ before.valid
          /\ Untracked(before.query) # <<>>
          /\ Untracked(before.query) # SearchParams(before.query)
          /\ cleanContent.links[i] # body.links[i]
          /\ SearchParams(ParseURL(cleanContent.links[i]).query) = Untracked(before.query)
\* ------------------------------------------------------ prompts: the claims
\* the entries of run r's log whose call sent a request
Requests(r) == {n \in 1..Len(runs[r].log) : runs[r].log[n].done /\ runs[r].log[n].fetched}

\* the text, the prompt and the cache key of the call of a log entry
RequestText(e) == Join([x \in 1..Len(e.before) |-> Trim(e.before[x])], Separator)
RequestPrompt(e) == GetPromptForDifficulty(RequestText(e), Num(e.difficulty)).prompt
RequestKey(e) == CacheKey(RequestText(e), Num(e.difficulty))

\* C23: the three levels of the popup are told apart from the click to the
\* request: the prompt of every request of a run names the level whose
\* button started the run, and requests of runs started with different
\* levels never have the same prompt or the same cache key for the same text.
LevelsDistinguished ==
  /\ \A r \in Runs : \A n \in Requests(r) :
       Contains(RequestPrompt(runs[r].log[n]), sent[r])
  /\ \A r1, r2 \in Runs : \A n1 \in Requests(r1), n2 \in Requests(r2) :
       LET e1 == runs[r1].log[n1]
           e2 == runs[r2].log[n2]
       IN sent[r1] # sent[r2] /\ RequestText(e1) = RequestText(e2)
          => /\ RequestPrompt(e1) # RequestPrompt(e2)
             /\ RequestKey(e1) # RequestKey(e2)

\* the order of the values of each feature, from the lowest tier on
Scales ==
  [vocabulary |-> Vocabulary,
   grammar |-> Grammar,
   complexity |-> Complexity,
   idioms |-> Idioms]

\* the tiers of the features of a call, 0 for a value of no tier
Tiers(result) ==
  [f \in DOMAIN Scales |->
     IF \E k \in 1..3 : Scales[f][k] = result.features[f]
     THEN CHOOSE k \in 1..3 : Scales[f][k] = result.features[f] ELSE 0]

\* C24: the constraints of the prompt grow with the difficulty: for calls
\* with difficulties d1 <= d2 from 1 to 10 the tier of the vocabulary, of
\* the grammar, of the sentence complexity and of the idioms chosen for d1 is
\* no higher than the one chosen for d2, each prompt states the constraints
\* chosen, and calls with the same difficulty choose the same constraints.
MonotonicPrompt ==
  \A a, b \in 1..Len(promptLog) :
    LET x == promptLog[a]
        y == promptLog[b]
    IN /\ x.difficulty = y.difficulty => x.result.features = y.result.features
       /\ \A f \in DOMAIN Scales : Contains(x.result.prompt, x.result.features[f])
       /\ /\ x.difficulty.kind = "number" /\ x.difficulty.num \in 1..10
          /\ y.difficulty.kind = "number" /\ y.difficulty.num \in 1..10
          /\ x.difficulty.num <= y.difficulty.num
          => \A f \in DOMAIN Scales :
               /\ Tiers(x.result)[f] >= 1
               /\ Tiers(x.result)[f] <= Tiers(y.result)[f]

\* two calls with difficulties 3 and 7 chose the lowest and the highest tier
\* of every feature
MonotonicPromptWitness ==
  \E a, b \in 1..Len(promptLog) :
    /\ promptLog[a].difficulty = Num(3) /\ promptLog[b].difficulty = Num(7)
    /\ \A f \in DOMAIN Scales :
         Tiers(promptLog[a].result)[f] = 1 /\ Tiers(promptLog[b].result)[f] = 3
\* ------------------------------------------------------- speech: the claims
\* the speakText calls that passed the safety check
Said == {n \in 1..Len(speech.calls) : ~InvalidText(speech.calls[n].text)}

\* the utterances of speakText calls in the queue
OfSpeakText(queue) == {i \in 1..Len(queue) : queue[i] # TestUtterance}

\* C27: every speakText call with a text that is not empty cancels whatever
\* is spoken or pending before it starts its utterance: right after the call
\* the queue holds this utterance alone, and at any time at most one
\* utterance of a speakText call is spoken or pending, that of the latest
\* such call.
CancelAndReplace ==
  /\ \A n \in Said :
       speech.available
         => speech.calls[n].after = <<Utterance(speech.calls[n].text)>>
  /\ Cardinality(OfSpeakText(speech.queue)) <= 1
  /\ \A i \in OfSpeakText(speech.queue) :
       /\ Said # {}
       /\ speech.queue[i] =
            Utterance(speech.calls[CHOOSE n \in Said : \A k \in Said : k <= n].text)

\* a speakText call found the utterance of an earlier call with another text
\* in the queue, and its own utterance is the only one now
CancelAndReplaceWitness ==
  \E n \in Said :
    /\ n = Len(speech.calls)
    /\ \E i \in OfSpeakText(speech.calls[n].before) :
         speech.calls[n].before[i].text # speech.calls[n].text
    /\ speech.queue = <<Utterance(speech.calls[n].text)>>

\* C26: a click on a paragraph's speech button speaks the text the
\* paragraph has at the click: once its text nodes are translated, speakText
\* is handed the translated text, not the text the paragraph had when
\* formatContent built the layout.
SpeaksCurrentText ==
  \A n \in 1..Len(speech.clicks) :
    speech.clicks[n].spoken = <<Trim(speech.clicks[n].text)>>
\* ------------------------------------------------ translatePage: later claims
\* text node ref is a node of document doc
NodeOf(doc, ref) ==
  /\ ref[1] \in 1..Len(doc.paras)
  /\ ref[2] \in 0..Len(doc.paras[ref[1]].texts)

\* run r has swapped a reader layout in
HasSwapped(r) ==
  /\ runs[r].gen \in 2..Len(docs)
  /\ docs[runs[r].gen].reader

\* C31: progressive rendering order.  A run that is in its batch loop, has
\* called translateText or has a call pending has swapped the live document
\* to the reader layout before, and every text node the run has written is a
\* node of the reader layout it swapped in, one of the nodes it collected.
ProgressiveRendering ==
  \A r \in Runs :
    /\ (runs[r].pc = "loop" \/ runs[r].log # <<>> \/ calls[r] # <<>>) => HasSwapped(r)
    /\ \A w \in 1..Len(runs[r].writes) :
         /\ HasSwapped(r)
         /\ NodeOf(docs[runs[r].gen], runs[r].writes[w].ref)
         /\ \E x \in 1..Len(runs[r].textNodes) :
              runs[r].textNodes[x] = runs[r].writes[w].ref

\* a run has written a unit with the answer of a remote call
ProgressiveRenderingWitness ==
  \E r \in Runs :
    /\ runs[r].writes # <<>>
    /\ runs[r].log[1].done
    /\ runs[r].log[1].fetched
    /\ runs[r].log[1].ok

\* the request of run r's translateText call is in flight
InFlight(r) == calls[r] # <<>> /\ Head(calls[r]).st = "fetch"

\* C32: a remote call that never responds is eventually treated as a
\* failure, so the run ends with its loading indicator removed whether or
\* not the remote service answers: a request in flight leads to the end of
\* its run, with fairness for the steps of the extension alone.
UnansweredCallFails ==
  \A r \in 1..MaxRuns : InFlight(r) ~> Ended(r)

\* ------------------------------------------------------- voices: the claims
\* C33: voice initialisation always completes.  The promise of initVoices
\* resolves after a bounded wait whatever the voice list does: once
\* loadVoices has found the list empty MaxPolls times, the promise is no
\* longer pending.
VoicesInitialised ==
  speech.voices.polls >= MaxPolls => speech.voices.promise # "pending"

\* the texts of the p elements of doc whose text is not blank
ParaTexts(doc) ==
  LET shown(para) == Trim(ParaText(para)) # <<>>
      paras == SelectSeq(doc.paras, shown)
  IN [j \in 1..Len(paras) |-> paras[j].texts]

\* run r swaps its reader layout in
Swaps(r) ==
  /\ r \in Runs
  /\ runs[r].gen = 0
  /\ runs'[r].gen # 0

\* C35: a run that starts when an earlier run has swapped the reader layout
\* in takes its source from the live document as it stands: the paragraphs
\* of the layout it swaps in hold the texts the paragraphs of the live
\* reader view have at that moment, translations written by earlier runs
\* included, and the texts of the units it collects are those texts.
SourceIsLiveDocument ==
  [][\A r \in 1..MaxRuns :
       Swaps(r) /\ docs[Live].reader =>
         LET reader == docs'[runs'[r].gen]
         IN /\ runs'[r].gen = Len(docs')
            /\ [j \in 1..Len(reader.paras) |-> reader.paras[j].texts]
                 = ParaTexts(docs[Live])
            /\ runs'[r].orig =
                 [x \in 1..Len(runs'[r].textNodes) |->
                    NodeText(reader, runs'[r].textNodes[x])]]_vars

\* a later run has sent, as the text of a unit, the translation an earlier
\* run had written
SourceIsLiveDocumentWitness ==
  \E q \in Runs, r \in Runs :
    /\ q < r
    /\ runs[q].writes # <<>>
    /\ runs[r].log # <<>>
    /\ \E x \in 1..Len(runs[r].log[1].before) :
         /\ runs[r].log[1].before[x] = Translate(Word(1))
         /\ runs[r].orig[x] = Translate(Word(1))

\* the request text of log entry e
SentText(e) == Join([x \in 1..Len(e.before) |-> Trim(e.before[x])], Separator)

\* run r has called translateText for every batch, and every answer it got
\* from the remote service is in the cache
AllBatchesIssued(r) ==
  /\ Len(runs[r].log) = BatchCount(Len(runs[r].textNodes))
  /\ \A n \in 1..Len(runs[r].log) :
       LET e == runs[r].log[n]
       IN e.fetched /\ e.ok =>
            CacheKey(SentText(e), Num(e.difficulty)) \in DOMAIN translationCache

\* C36: a swap by a second run does not cancel a first run in flight.  The
\* swap leaves every other run and its pending call as they are; a run that
\* runs to completion has issued all its batch calls and its answers are in
\* the cache; a write of a run whose layout is no longer live changes no unit
\* of the live document, which only the run of the latest swap writes to.
NoCancellation ==
  /\ [](\A r \in Runs : runs[r].outcome = "completed" => AllBatchesIssued(r))
  /\ [][\A r \in 1..MaxRuns :
          /\ Swaps(r) =>
               \A q \in Runs \ {r} : runs'[q] = runs[q] /\ calls'[q] = calls[q]
          /\ (r \in Runs /\ runs[r].gen # Live /\ runs'[r].writes # runs[r].writes)
               => docs'[Live] = docs[Live]
          /\ (r \in Runs /\ Len(docs') = Len(docs)
              /\ docs'[Live].paras # docs[Live].paras)
               => \E q \in Runs : runs[q].gen = Live
                                  /\ runs'[q].writes # runs[q].writes]_vars

\* the first run has completed after the second run swapped: the answer it
\* wrote is in its own layout and in the cache, and the live layout, swapped
\* in by the second run before that write, still holds the text as loaded
NoCancellationWitness ==
  /\ Len(runs) = 2
  /\ runs[1].outcome = "completed"
  /\ runs[1].gen = 2
  /\ runs[2].gen = 3
  /\ Live = 3
  /\ runs[1].writes # <<>>
  /\ runs[1].log[1].fetched
  /\ docs[2].paras[1].texts[1] = Translate(Word(1))
  /\ docs[3].paras[1].texts[1] = Word(1)

\* --------------------------------------------------- the cache key: the claim
\* the difficulties translateText is called with: the levels of the slider,
\* the ids of the popup's buttons, and the numbers translatePage makes of
\* other payloads
Difficulties ==
  PromptDifficulties \cup KeyDifficulties
    \cup {Num(ParseIntOr5(payload)) : payload \in OtherPayloads}

\* two pairs of a difficulty and a text with the same key are the same pair
KeysDistinct ==
  \A d1 \in Difficulties, d2 \in Difficulties :
    \A t1 \in KeyTexts \cup TestTexts, t2 \in KeyTexts \cup TestTexts :
      CacheKey(t1, d1) = CacheKey(t2, d2) => d1 = d2 /\ t1 = t2

\* C37: the cache key is injective in its two components.  Two pairs of a
\* difficulty and a text have the same key only if they are the same pair,
\* and a call answered from the cache returns what an earlier call with the
\* same difficulty and the same text had stored.
KeyInjective ==
  /\ KeysDistinct
  /\ \A n \in 1..Len(ttLog) :
       ttLog[n].hit =>
         \E m \in 1..(n - 1) :
           /\ SameInput(ttLog[m], ttLog[n])
           /\ Succeeded(ttLog[m])
           /\ ttLog[m].ret = ttLog[n].ret

\* a call is answered from the cache while the cache also holds an entry
\* for the other difficulty and the text that begins like its end
KeyInjectiveWitness ==
  /\ Len(ttLog) = 3
  /\ ttLog[1].text = <<"h", "i">> /\ ttLog[1].difficulty = Num(10)
  /\ Succeeded(ttLog[1])
  /\ ttLog[2].text = <<"0", "h", "i">> /\ ttLog[2].difficulty = Num(1)
  /\ Succeeded(ttLog[2])
  /\ ttLog[3].hit
  /\ SameInput(ttLog[3], ttLog[1])
  /\ Cardinality(DOMAIN translationCache) = 2

====
